---------------------------- MODULE Spec2Model ----------------------------
(***************************************************************************)
(* A model of the agent runtime of ancourn/Omniorbase-:                    *)
(*   AgentEngine    (src/src/lib/agent/agent-engine.ts)                    *)
(*   LearningEngine (src/unnamed/part_000)                                 *)
(*                                                                         *)
(* processMessage is an async function.  Every await is a point where      *)
(* another call's continuation, or a synchronous public method (addTool,   *)
(* removeTool, clearMemory), may run; between two awaits the code runs     *)
(* atomically.  Each action below is one such atomic run.                  *)
(*                                                                         *)
(* Confidences are in hundredths (0.8 is 80).                              *)
(* Strings the code edits (String.prototype.replace) are sequences of      *)
(* one-character strings, see Chars and Replace.                           *)
(***************************************************************************)
EXTENDS Integers, Sequences, FiniteSets, TLC

\* ------------------------------------------------------------------ bounds

\* processMessage calls made on the engine (calls may overlap)
MaxCalls == 2
\* config.maxMemorySize ranges over 0..MaxMemorySize
MaxMemorySize == 2
\* addTool / removeTool / clearMemory / importState calls made on the engine
MaxOps == 1
\* learnFromInteraction calls made on the learning engine (calls may overlap)
MaxLearns == 3

\* the confidences determineBestAction assigns, in hundredths
ToolConfidence == 80
PlanningConfidence == 70
ReplyConfidence == 60

Calls == 1..MaxCalls

\* the message texts a caller passes to processMessage
Messages == {"hello"}

\* the JavaScript value undefined (a missing field, a missing optional member)
Undefined == "undefined"

\* ------------------------------------------------------------------ strings

\* The strings the code edits or compares after editing, as character sequences.
Chars(s) ==
  CASE s = "file_operation"      -> <<"f","i","l","e","_","o","p","e","r","a","t","i","o","n">>
    [] s = "web_search"          -> <<"w","e","b","_","s","e","a","r","c","h">>
    [] s = "code_generation"     -> <<"c","o","d","e","_","g","e","n","e","r","a","t","i","o","n">>
    [] s = "system_command"      -> <<"s","y","s","t","e","m","_","c","o","m","m","a","n","d">>
    [] s = "deployment"          -> <<"d","e","p","l","o","y","m","e","n","t">>
    [] s = "communication"       -> <<"c","o","m","m","u","n","i","c","a","t","i","o","n">>
    [] s = "response_generation" -> <<"r","e","s","p","o","n","s","e","_","g","e","n","e","r","a","t","i","o","n">>
    [] s = "file"                -> <<"f","i","l","e">>
    [] s = "web"                 -> <<"w","e","b">>
    [] s = "code"                -> <<"c","o","d","e">>
    [] s = "system"              -> <<"s","y","s","t","e","m">>
    [] s = "_operation"          -> <<"_","o","p","e","r","a","t","i","o","n">>
    [] s = "_search"             -> <<"_","s","e","a","r","c","h">>
    [] s = "_generation"         -> <<"_","g","e","n","e","r","a","t","i","o","n">>
    [] s = ""                    -> << >>
    [] s = "help"                -> <<"h","e","l","p">>
    [] s = "me"                  -> <<"m","e">>
    [] s = "mention"             -> <<"m","e","n","t","i","o","n">>
    [] s = "how"                 -> <<"h","o","w">>
    [] s = "to"                  -> <<"t","o">>
    [] s = "what"                -> <<"w","h","a","t">>
    [] s = "is"                  -> <<"i","s">>
    [] s = "can"                 -> <<"c","a","n">>
    [] s = "you"                 -> <<"y","o","u">>
    [] s = "please"              -> <<"p","l","e","a","s","e">>
    [] s = "thank"               -> <<"t","h","a","n","k">>
    [] s = "i"                   -> <<"i">>
    [] s = "want"                -> <<"w","a","n","t">>
    [] s = "need"                -> <<"n","e","e","d">>
    [] s = "show"                -> <<"s","h","o","w">>
    [] s = "tell"                -> <<"t","e","l","l">>

\* String.prototype.replace(pattern, replacement) with a string pattern:
\* the first occurrence of pat in s is replaced, s is returned when there is none.
Replace(s, pat, rep) ==
  LET n == Len(pat)
      At(i) == SubSeq(s, i, i + n - 1) = pat
      Hits == {i \in 1..(Len(s) - n + 1) : At(i)}
  IN IF Hits = {} THEN s
     ELSE LET i == CHOOSE j \in Hits : \A k \in Hits : j <= k
          IN SubSeq(s, 1, i - 1) \o rep \o SubSeq(s, i + n, Len(s))

\* ------------------------------------------------------------------ tools

\* AgentTool descriptors (types: AgentTool).  A function member is "function";
\* safetyCheck is optional.  The last descriptor re-uses the id file_read.
FileRead ==
  [id |-> "file_read", category |-> "file", execute |-> "function", safetyCheck |-> "function"]
FileWrite ==
  [id |-> "file_write", category |-> "file", execute |-> "function", safetyCheck |-> "function"]
WebSearch ==
  [id |-> "web_search", category |-> "web", execute |-> "function", safetyCheck |-> Undefined]
FileReadV2 ==
  [id |-> "file_read", category |-> "web", execute |-> "function", safetyCheck |-> Undefined]

ToolUniverse == {FileRead, FileWrite, WebSearch, FileReadV2}
ToolIds == {t.id : t \in ToolUniverse}

\* the parameter objects a classifier extracts (entities): none, {} and a
\* well-formed object
Entities == {Undefined, "empty", "valid"}

\* safetyCheck of the file tools: (params) => { if (!params.filepath ...) return false; ... }
\* raises a TypeError on undefined params, rejects an object without the field.
SafetyCheck(tool, params) ==
  IF params = Undefined THEN "raise"
  ELSE IF params = "empty" THEN "false"
  ELSE "true"


\* ------------------------------------------------------------------ arrays, Map

Min(a, b) == IF a < b THEN a ELSE b

Max(a, b) == IF a > b THEN a ELSE b

\* Array.prototype.slice(start) (one argument; a negative start counts from the
\* end; -0 is 0)
Slice(arr, start) ==
  LET len  == Len(arr)
      from == IF start < 0 THEN (IF len + start > 0 THEN len + start ELSE 0)
              ELSE (IF start < len THEN start ELSE len)
  IN SubSeq(arr, from + 1, len)

\* A Map<string, AgentTool> is the sequence of its values in iteration
\* (first-insertion) order; the keys are the values' ids.
MapHas(map, id) == \E i \in 1..Len(map) : map[i].id = id

MapGet(map, id) == map[CHOOSE i \in 1..Len(map) : map[i].id = id]

\* Map.prototype.set: an existing key keeps its place and takes the new value
MapSet(map, tool) ==
  IF MapHas(map, tool.id)
  THEN [i \in 1..Len(map) |-> IF map[i].id = tool.id THEN tool ELSE map[i]]
  ELSE Append(map, tool)

\* Map.prototype.delete
MapDelete(map, id) == SelectSeq(map, LAMBDA t : t.id # id)

RECURSIVE MapFromList(_)
\* constructor: config.tools.forEach(tool => this.tools.set(tool.id, tool))
MapFromList(list) ==
  IF list = << >> THEN << >>
  ELSE MapSet(MapFromList(SubSeq(list, 1, Len(list) - 1)), list[Len(list)])

\* ------------------------------------------------------------------ state

VARIABLES
  config,        \* state.config: safetyLevel, learningEnabled, maxMemorySize, tools
  tools,         \* the private tools Map
  messages,      \* state.messages
  memory,        \* state.memory
  decisions,     \* state.decisions
  performance,   \* state.performance: totalInteractions, successfulActions
  pc,            \* per processMessage call: where the call is
  message,       \* per call: its argument
  context,       \* per call: makeDecision's local context
  decision,      \* per call: the decision makeDecision returned
  response,      \* per call: the text dispatch produced
  result,        \* per call: what the call's promise settled with
  inserted,      \* history: the records given to storeMemory since the last clearMemory
  executeCalls,  \* history: the invocations of tools' execute functions
  importResult,  \* history: the last importState call, its document and outcome
  ops,           \* number of addTool / removeTool / clearMemory / importState calls made
  patterns,          \* LearningEngine.patterns (a Map, in iteration order)
  performanceHistory,\* LearningEngine.performanceHistory
  adaptationRules,   \* LearningEngine.adaptationRules (a Map, in iteration order)
  learnPc,           \* per learnFromInteraction call: where the call is
  learnResult,       \* per learnFromInteraction call: the rules it executed, its outcome,
                     \* the context object as passed and as the call left it
  prediction,        \* what the last predictIntent call returned
  learned,           \* history: content and decision of the calls started since the last reset
  metrics,           \* MonitoringService.metrics
  thresholds,        \* MonitoringService.thresholds
  now,               \* the clock (Date.now()), in minutes
  health,            \* what the last getHealthStatus call returned
  trend              \* what the last getPerformanceTrend call returned

\* the variables of the AgentEngine and those of the LearningEngine
engine == <<config, tools, messages, memory, decisions, performance, pc, message,
            context, decision, response, result, inserted, executeCalls, importResult,
            ops>>

learning == <<patterns, performanceHistory, adaptationRules, learnPc, learnResult,
              prediction, learned>>

monitoring == <<metrics, thresholds, now, health, trend>>

vars == <<engine, learning, monitoring>>

None == [none |-> TRUE]

\* A timestamp is a Date object when the engine makes it (new Date()) and the
\* ISO text of the date after JSON.stringify / JSON.parse; only which of the two
\* it is is kept.
NewDate == "Date"
IsoText == "string"

\* the texts the engine returns: the fixed wording and what is interpolated
Text(wording, detail) == [text |-> wording, detail |-> detail]

NoText == Text(Undefined, Undefined)

\* executeTool's catch: `Error executing ${tool.name}: ${error.message}`
ExecutionFailed(toolId, error) ==
  [text |-> "Error executing", detail |-> toolId, error |-> error]

\* ------------------------------------------------------------------ LearningEngine: patterns

LearnCalls == 1..MaxLearns

\* updatePatternRecognition's numbers, in hundredths
NewConfidence == 50
ConfidenceThreshold == 70
ConfidenceGain == 10
ConfidenceLoss == 5
ConfidenceCap == 100
ConfidenceFloor == 10

\* analyzePerformance's numbers: success is confidence > 0.5; the history keeps
\* the last 1000 entries
SuccessThreshold == 50
HistoryLimit == 1000

\* A text is the sequence of its words, the words being separated by single
\* blanks and in lower case; a pattern key is a text too.  The characters of a
\* text, as the code's includes() sees them:
RECURSIVE Join(_)
Join(words) ==
  IF words = << >> THEN << >>
  ELSE IF Len(words) = 1 THEN Chars(words[1])
  ELSE Join(SubSeq(words, 1, Len(words) - 1)) \o <<" ">> \o Chars(words[Len(words)])

\* String.prototype.includes
Includes(text, part) ==
  \E i \in 1..(Len(text) - Len(part) + 1) : SubSeq(text, i, i + Len(part) - 1) = part

\* extractPatterns: keyPhrases
KeyPhrases ==
  << <<"help", "me">>, <<"how", "to">>, <<"what", "is">>, <<"can", "you">>, <<"please">>,
     <<"thank", "you">>, <<"i", "want">>, <<"i", "need">>, <<"show", "me">>,
     <<"tell", "me">> >>

\* extractPatterns(content): every pair of neighbouring words, then every triple,
\* then every key phrase the content includes; nothing is removed from the list
ExtractPatterns(words) ==
  LET bigrams  == [i \in 1..(Len(words) - 1) |-> <<words[i], words[i + 1]>>]
      trigrams == [i \in 1..(Len(words) - 2) |-> <<words[i], words[i + 1], words[i + 2]>>]
      phrases  == SelectSeq(KeyPhrases, LAMBDA phrase : Includes(Join(words), Join(phrase)))
  IN bigrams \o trigrams \o phrases

\* An entry of the patterns Map, with its key.  occurrences is 0 where the
\* member is absent (the code reads it as occurrences || 0).  The member
\* 'patterns' (a list no method reads) is left out.
Entry(key, intent, confidence, occurrences) ==
  [key |-> key, response |-> intent, confidence |-> confidence,
   occurrences |-> occurrences]

\* initializePatterns()
InitializePatterns ==
  << Entry(<<"greeting">>, "greeting", 90, 0),
     Entry(<<"help_request">>, "help", 80, 0),
     Entry(<<"file_operation">>, "file", 70, 0),
     Entry(<<"code_request">>, "code", 80, 0),
     Entry(<<"system_command">>, "system", 70, 0) >>

PatternHas(table, key) == \E i \in 1..Len(table) : table[i].key = key

PatternGet(table, key) == table[CHOOSE i \in 1..Len(table) : table[i].key = key]

\* the callback without Math.min and Math.max
UpdatePatternUnclamped(table, key, d) ==
  IF ~PatternHas(table, key)
  THEN Append(table, Entry(key, d.type, NewConfidence, 1))
  ELSE [i \in 1..Len(table) |->
          IF table[i].key # key THEN table[i]
          ELSE [table[i] EXCEPT
                  !.occurrences = @ + 1,
                  !.confidence = IF d.confidence > ConfidenceThreshold
                                 THEN @ + ConfidenceGain
                                 ELSE @ - ConfidenceLoss]]

\* the callback applying the decision's gain or loss to a new entry as well
UpdatePatternAdjustsNew(table, key, d) ==
  IF ~PatternHas(table, key)
  THEN Append(table, Entry(key, d.type,
                           IF d.confidence > ConfidenceThreshold
                           THEN NewConfidence + ConfidenceGain
                           ELSE NewConfidence - ConfidenceLoss, 1))
  ELSE [i \in 1..Len(table) |->
          IF table[i].key # key THEN table[i]
          ELSE [table[i] EXCEPT
                  !.occurrences = @ + 1,
                  !.confidence = IF d.confidence > ConfidenceThreshold
                                 THEN Min(ConfidenceCap, @ + ConfidenceGain)
                                 ELSE Max(ConfidenceFloor, @ - ConfidenceLoss)]]

\* the callback deleting an entry that a weak decision meets, instead of
\* lowering its confidence
UpdatePatternForgets(table, key, d) ==
  IF ~PatternHas(table, key)
  THEN Append(table, Entry(key, d.type, NewConfidence, 1))
  ELSE IF d.confidence > ConfidenceThreshold
  THEN [i \in 1..Len(table) |->
          IF table[i].key # key THEN table[i]
          ELSE [table[i] EXCEPT
                  !.occurrences = @ + 1,
                  !.confidence = Min(ConfidenceCap, @ + ConfidenceGain)]]
  ELSE SelectSeq(table, LAMBDA entry : entry.key # key)

\* the callback with a decision of exactly the threshold counted as a success
UpdatePatternGainsAtThreshold(table, key, d) ==
  IF ~PatternHas(table, key)
  THEN Append(table, Entry(key, d.type, NewConfidence, 1))
  ELSE [i \in 1..Len(table) |->
          IF table[i].key # key THEN table[i]
          ELSE [table[i] EXCEPT
                  !.occurrences = @ + 1,
                  !.confidence = IF d.confidence >= ConfidenceThreshold
                                 THEN Min(ConfidenceCap, @ + ConfidenceGain)
                                 ELSE Max(ConfidenceFloor, @ - ConfidenceLoss)]]

\* updatePatternRecognition's callback, for one pattern of the list
UpdatePattern(table, key, d) ==
  IF ~PatternHas(table, key)
  THEN Append(table, Entry(key, d.type, NewConfidence, 1))
  ELSE [i \in 1..Len(table) |->
          IF table[i].key # key THEN table[i]
          ELSE [table[i] EXCEPT
                  !.occurrences = @ + 1,
                  !.confidence = IF d.confidence > ConfidenceThreshold
                                 THEN Min(ConfidenceCap, @ + ConfidenceGain)
                                 ELSE Max(ConfidenceFloor, @ - ConfidenceLoss)]]

\* updatePatternRecognition with every pattern applied to the Map as it was
\* when the call began: of the updates of one key only the last is kept
UpdatePatternRecognitionStale(table, keys, d) ==
  LET updated(i) == UpdatePattern(table, keys[i], d)
      last(key)  == CHOOSE i \in 1..Len(keys) :
                      keys[i] = key /\ \A j \in (i + 1)..Len(keys) : keys[j] # key
      created    == SelectSeq([i \in 1..Len(keys) |-> keys[i]],
                              LAMBDA key : ~PatternHas(table, key))
      firsts     == {i \in 1..Len(created) :
                       \A j \in 1..(i - 1) : created[j] # created[i]}
      order      == SelectSeq([i \in 1..Len(created) |->
                                 IF i \in firsts THEN <<created[i]>> ELSE << >>],
                              LAMBDA e : e # << >>)
  IN [i \in 1..Len(table) |->
        IF \E k \in 1..Len(keys) : keys[k] = table[i].key
        THEN updated(last(table[i].key))[i] ELSE table[i]]
     \o [i \in 1..Len(order) |-> Entry(order[i][1], d.type, NewConfidence, 1)]

RECURSIVE UpdatePatternRecognition(_, _, _)
\* updatePatternRecognition(patterns, decision): patterns.forEach(...)
UpdatePatternRecognition(table, keys, d) ==
  IF keys = << >> THEN table
  ELSE UpdatePattern(UpdatePatternRecognition(table, SubSeq(keys, 1, Len(keys) - 1), d),
                     keys[Len(keys)], d)

\* an analyzePerformance that keeps the oldest entries when the limit is passed
AnalyzePerformanceKeepsOldest(history, d) ==
  LET pushed == Append(history,
                  [decisionType |-> d.type, confidence |-> d.confidence,
                   responseTime |-> 0, success |-> d.confidence > SuccessThreshold,
                   timestamp |-> NewDate])
  IN IF Len(pushed) > HistoryLimit THEN SubSeq(pushed, 1, HistoryLimit) ELSE pushed

\* analyzePerformance(decision, context): the new performanceHistory
AnalyzePerformance(history, d) ==
  LET pushed == Append(history,
                  [decisionType |-> d.type, confidence |-> d.confidence,
                   responseTime |-> 0, success |-> d.confidence > SuccessThreshold,
                   timestamp |-> NewDate])
  IN IF Len(pushed) > HistoryLimit THEN Slice(pushed, -HistoryLimit) ELSE pushed

\* ------------------------------------------------------------------ LearningEngine: rules

\* the thresholds of the three rules' conditions (the success rate in hundredths)
SlowResponseTime == 5000
LowSuccessRate == 80
LargeMemory == 1000

\* initializeAdaptationRules(): name, condition, action, priority
InitializeAdaptationRules ==
  << [name |-> "response_time_optimization", condition |-> "function",
      action |-> "reduce_complexity", priority |-> 1],
     [name |-> "success_rate_improvement", condition |-> "function",
      action |-> "increase_safety_checks", priority |-> 2],
     [name |-> "memory_optimization", condition |-> "function",
      action |-> "cleanup_memory", priority |-> 3] >>

\* The contexts a caller passes (the agent's state: of its config the safety
\* level, its performance, of its memory the length): performance and memory
\* are None when the member is missing.  A quiet engine, a struggling one, and
\* two contexts that lack a member.
LearnContexts ==
  { [config |-> [safetyLevel |-> "medium"],
     performance |-> [averageResponseTime |-> 100, successfulActions |-> 0,
                      totalInteractions |-> 0],
     memory |-> [length |-> 0]],
    [config |-> [safetyLevel |-> "medium"],
     performance |-> [averageResponseTime |-> 6000, successfulActions |-> 1,
                      totalInteractions |-> 2],
     memory |-> [length |-> 1001]],
    [config |-> [safetyLevel |-> "medium"],
     performance |-> None, memory |-> [length |-> 0]],
    [config |-> [safetyLevel |-> "medium"],
     performance |-> [averageResponseTime |-> 100, successfulActions |-> 1,
                      totalInteractions |-> 1],
     memory |-> None] }

\* rule.condition(context): "true", "false", or "raise" (a TypeError on reading
\* a field of a missing member, or on calling a condition that is no function).
\* A division by zero gives NaN or Infinity, and the comparison is false.
Condition(rule, ctx) ==
  IF rule.condition = Undefined THEN "raise"
  ELSE IF rule.name = "response_time_optimization" THEN
    IF ctx.performance = None THEN "raise"
    ELSE IF ctx.performance.averageResponseTime > SlowResponseTime THEN "true" ELSE "false"
  ELSE IF rule.name = "success_rate_improvement" THEN
    IF ctx.performance = None THEN "raise"
    ELSE IF /\ ctx.performance.totalInteractions # 0
            /\ 100 * ctx.performance.successfulActions
                 < LowSuccessRate * ctx.performance.totalInteractions
         THEN "true" ELSE "false"
  ELSE
    IF ctx.memory = None THEN "raise"
    ELSE IF ctx.memory.length > LargeMemory THEN "true" ELSE "false"

RECURSIVE SortByPriority(_)
\* Array.prototype.sort((a, b) => a.priority - b.priority), which is stable
SortByPriority(rules) ==
  IF rules = << >> THEN << >>
  ELSE LET least == CHOOSE i \in 1..Len(rules) :
                      \A j \in 1..Len(rules) :
                        \/ rules[i].priority < rules[j].priority
                        \/ rules[i].priority = rules[j].priority /\ i <= j
       IN <<rules[least]>> \o
          SortByPriority(SubSeq(rules, 1, least - 1) \o SubSeq(rules, least + 1, Len(rules)))

\* adaptBehavior's filter and sort: the applicable rules in priority order, or
\* the TypeError a condition raised
ApplicableRules(rules, ctx) ==
  IF \E i \in 1..Len(rules) : Condition(rules[i], ctx) = "raise"
  THEN [raised |-> TRUE, rules |-> << >>]
  ELSE [raised |-> FALSE,
        rules  |-> SortByPriority(SelectSeq(rules, LAMBDA r : Condition(r, ctx) = "true"))]

\* executeAdaptationRule wired to the agent: the safety level is raised and the
\* oldest memory record dropped
ExecuteAdaptationRuleWired(action, ctx) ==
  IF action = "increase_safety_checks"
  THEN [ctx EXCEPT !.config = [safetyLevel |-> "high"]]
  ELSE IF action = "cleanup_memory"
  THEN [ctx EXCEPT !.memory = [length |-> ctx.memory.length - 1]]
  ELSE ctx

\* executeAdaptationRule(rule, context): the context afterwards.  Every case of
\* the switch writes a line to the console and nothing else.
ExecuteAdaptationRule(action, ctx) ==
  IF action = "reduce_complexity" THEN ctx
  ELSE IF action = "increase_safety_checks" THEN ctx
  ELSE IF action = "cleanup_memory" THEN ctx
  ELSE ctx

RECURSIVE ExecuteAdaptationRules(_, _)
\* adaptBehavior's loop over the applicable rules
ExecuteAdaptationRules(actions, ctx) ==
  IF actions = << >> THEN ctx
  ELSE ExecuteAdaptationRules(Tail(actions), ExecuteAdaptationRule(Head(actions), ctx))

\* the LearningEngine as constructed
LearningConstructed ==
  /\ patterns = InitializePatterns
  /\ performanceHistory = << >>
  /\ adaptationRules = InitializeAdaptationRules
  /\ learnPc = [l \in LearnCalls |-> "idle"]
  /\ learnResult = [l \in LearnCalls |-> None]
  /\ prediction = None
  /\ learned = << >>

\* ------------------------------------------------------------------ MonitoringService

\* the samples kept, and those a run records
MetricsLimit == 1000
MaxSamples == 4

\* the clock advances once, by more than the default window
TickMinutes == 90
MaxNow == 90

\* the thresholds of a new service: milliseconds, and hundredths for the ratios
ResponseTimeThreshold == 5000
MemoryUsageThreshold == 80
CpuUsageThreshold == 70
ErrorRateThreshold == 10

InitialThresholds ==
  [responseTime |-> ResponseTimeThreshold, memoryUsage |-> MemoryUsageThreshold,
   cpuUsage |-> CpuUsageThreshold, errorRate |-> ErrorRateThreshold]

\* A sample as passed to recordMetrics: responseTime in milliseconds, the
\* ratios in hundredths.  successRate, activeConnections and queueSize, which
\* no method but exportMetrics reads, are left out.
Sample(responseTime, memoryUsage, cpuUsage, errorRate) ==
  [responseTime |-> responseTime, memoryUsage |-> memoryUsage,
   cpuUsage |-> cpuUsage, errorRate |-> errorRate]

\* the samples a caller records: one passing every check, two failing on the
\* error rate alone, and samples failing two, three and four checks (a metric
\* equal to its threshold among them)
MetricSamples ==
  { Sample(100, 10, 10, 5),
    Sample(1000, 50, 50, 50),
    Sample(900, 50, 50, 45),
    Sample(800, 80, 50, 55),
    Sample(1100, 80, 70, 55),
    Sample(5000, 90, 80, 10) }

\* getHealthStatus looks at the last 10 samples, and reads the last of them
RecentMetrics == 10

\* getEmptyMetrics()
GetEmptyMetrics(time) ==
  [responseTime |-> 0, memoryUsage |-> 0, cpuUsage |-> 0, errorRate |-> 0,
   timestamp |-> time]

\* the checks of getHealthStatus without the equality case: <= for <
ChecksInclusive(latest, limits) ==
  [memory       |-> latest.memoryUsage <= limits.memoryUsage,
   cpu          |-> latest.cpuUsage <= limits.cpuUsage,
   responseTime |-> latest.responseTime <= limits.responseTime,
   errorRate    |-> latest.errorRate <= limits.errorRate]

\* getHealthStatus: checks
Checks(latest, limits) ==
  [memory       |-> latest.memoryUsage < limits.memoryUsage,
   cpu          |-> latest.cpuUsage < limits.cpuUsage,
   responseTime |-> latest.responseTime < limits.responseTime,
   errorRate    |-> latest.errorRate < limits.errorRate]

\* getHealthStatus: failedChecks.length
FailedChecks(checks) ==
  Cardinality({name \in DOMAIN checks : ~checks[name]})

\* generateRecommendations giving every text as soon as one check failed
GenerateRecommendationsForAll(checks) ==
  IF \E name \in DOMAIN checks : ~checks[name]
  THEN <<"High memory usage detected", "High CPU usage detected",
         "Slow response times detected", "High error rate detected">>
  ELSE <<"System is performing well">>

\* generateRecommendations(checks, metrics): the texts, by their first words
GenerateRecommendations(checks) ==
  LET failed == (IF ~checks.memory THEN <<"High memory usage detected">> ELSE << >>)
                \o (IF ~checks.cpu THEN <<"High CPU usage detected">> ELSE << >>)
                \o (IF ~checks.responseTime THEN <<"Slow response times detected">> ELSE << >>)
                \o (IF ~checks.errorRate THEN <<"High error rate detected">> ELSE << >>)
  IN IF Len(failed) = 0 THEN <<"System is performing well">> ELSE failed

\* getHealthStatus(): what it returns
GetHealthStatus(samples, limits, time) ==
  LET recentMetrics == Slice(samples, -RecentMetrics)
  IN IF Len(recentMetrics) = 0
     THEN [status |-> "healthy",
           checks |-> [memory |-> TRUE, cpu |-> TRUE, responseTime |-> TRUE,
                       errorRate |-> TRUE],
           metrics |-> GetEmptyMetrics(time),
           recommendations |-> << >>]
     ELSE LET latest == recentMetrics[Len(recentMetrics)]
              checks == Checks(latest, limits)
          IN [status |-> IF FailedChecks(checks) = 0 THEN "healthy"
                         ELSE IF FailedChecks(checks) <= 2 THEN "degraded"
                         ELSE "unhealthy",
              checks |-> checks,
              metrics |-> latest,
              recommendations |-> GenerateRecommendations(checks)]

\* getMetricsHistory(minutes)
GetMetricsHistory(samples, time, minutes) ==
  SelectSeq(samples, LAMBDA metric : metric.timestamp >= time - minutes)

RECURSIVE Sum(_, _)
\* the reduce of calculateAverage, for one member
Sum(samples, member) ==
  IF samples = << >> THEN 0
  ELSE Sum(SubSeq(samples, 1, Len(samples) - 1), member) + samples[Len(samples)][member]

\* calculateAverage(metrics), for the two members the trend reads: each
\* average is the fraction sum / count (0 for no samples)
CalculateAverage(samples) ==
  IF Len(samples) = 0
  THEN [responseTime |-> [sum |-> 0, count |-> 1], errorRate |-> [sum |-> 0, count |-> 1]]
  ELSE [responseTime |-> [sum |-> Sum(samples, "responseTime"), count |-> Len(samples)],
        errorRate    |-> [sum |-> Sum(samples, "errorRate"), count |-> Len(samples)]]

\* the change threshold of getPerformanceTrend, in percent
TrendThreshold == 10

\* a < b * percent / 100, for fractions a and b
Below(a, b, percent) == 100 * a.sum * b.count < percent * b.sum * a.count

\* a > b * percent / 100
Above(a, b, percent) == 100 * a.sum * b.count > percent * b.sum * a.count

\* getPerformanceTrend(minutes)
GetPerformanceTrend(samples, time, minutes) ==
  LET relevantMetrics == GetMetricsHistory(samples, time, minutes)
      half      == Len(relevantMetrics) \div 2
      firstAvg  == CalculateAverage(SubSeq(relevantMetrics, 1, half))
      secondAvg == CalculateAverage(SubSeq(relevantMetrics, half + 1, Len(relevantMetrics)))
  IN IF Len(relevantMetrics) < 2 THEN "stable"
     ELSE IF /\ Below(secondAvg.responseTime, firstAvg.responseTime, 100 - TrendThreshold)
             /\ Below(secondAvg.errorRate, firstAvg.errorRate, 100 - TrendThreshold)
     THEN "improving"
     ELSE IF \/ Above(secondAvg.responseTime, firstAvg.responseTime, 100 + TrendThreshold)
             \/ Above(secondAvg.errorRate, firstAvg.errorRate, 100 + TrendThreshold)
     THEN "degrading"
     ELSE "stable"

\* the MonitoringService as constructed
MonitoringConstructed ==
  /\ metrics = << >>
  /\ thresholds = InitialThresholds
  /\ now = 0
  /\ health = None
  /\ trend = Undefined

\* ------------------------------------------------------------------ AgentEngine: construction

\* the tool lists an engine is constructed with
InitialToolLists == {<< >>, <<FileRead, FileWrite, WebSearch>>}

SafetyLevels == {"low", "medium", "high"}

\* constructor(config)
Init ==
  /\ \E sl \in SafetyLevels, le \in BOOLEAN, mm \in 0..MaxMemorySize,
        tl \in InitialToolLists :
       /\ config = [safetyLevel |-> sl, learningEnabled |-> le,
                    maxMemorySize |-> mm, tools |-> tl]
       /\ tools = MapFromList(tl)
  /\ messages = << >>
  /\ memory = << >>
  /\ decisions = << >>
  /\ performance = [totalInteractions |-> 0, successfulActions |-> 0]
  /\ pc = [c \in Calls |-> "idle"]
  /\ message = [c \in Calls |-> Undefined]
  /\ context = [c \in Calls |-> None]
  /\ decision = [c \in Calls |-> None]
  /\ response = [c \in Calls |-> NoText]
  /\ result = [c \in Calls |-> None]
  /\ inserted = << >>
  /\ executeCalls = << >>
  /\ importResult = None
  /\ ops = 0
  /\ LearningConstructed
  /\ MonitoringConstructed

\* ------------------------------------------------------------------ helpers of the engine

RecentMessages == 10
RecentMemory == 20

\* getContext without the slices: the whole logs
GetContextWhole(msgs) ==
  [recentMessages |-> msgs,
   memory         |-> memory,
   performance    |-> performance,
   availableTools |-> [i \in 1..Len(tools) |-> tools[i].id]]

\* getContext(), on the given state.messages
GetContext(msgs) ==
  [recentMessages |-> Slice(msgs, -RecentMessages),
   memory         |-> Slice(memory, -RecentMemory),
   performance    |-> performance,
   availableTools |-> [i \in 1..Len(tools) |-> tools[i].id]]

\* A state installed by importState may lack members: state.config or
\* state.performance is then None, and reading a field of it raises a TypeError.

\* storeMemory raises, after its push, when it reads this.state.config.maxMemorySize
StoreMemoryRaises == config = None

\* storeMemory(memory): the new value of state.memory
StoreMemory(mem, record) ==
  LET pushed == Append(mem, record)
  IN IF StoreMemoryRaises THEN pushed
     ELSE IF Len(pushed) > config.maxMemorySize
     THEN Slice(pushed, -config.maxMemorySize)
     ELSE pushed

\* updatePerformance raises at this.state.performance.totalInteractions++
UpdatePerformanceRaises == performance = None

\* an updatePerformance that counts successful calls only
UpdatePerformanceSkipsFailures(perf, successful) ==
  IF successful
  THEN [totalInteractions |-> perf.totalInteractions + 1,
        successfulActions |-> perf.successfulActions + 1]
  ELSE perf

\* updatePerformance(responseTime, successful): the counters
UpdatePerformance(perf, successful) ==
  [totalInteractions |-> perf.totalInteractions + 1,
   successfulActions |-> IF successful THEN perf.successfulActions + 1
                         ELSE perf.successfulActions]


\* ------------------------------------------------------------------ makeDecision

\* What the awaited classifier call of analyzeIntent can come to: an error (the
\* import, the request or JSON.parse raised), or a parsed JSON value: null, or an
\* object whose fields may be missing.
IntentNames == {"file_operation", "web_search"}

ClassifierOutcomes ==
  {[kind |-> "error", intent |-> Undefined, entities |-> Undefined, complexity |-> Undefined],
   [kind |-> "null",  intent |-> Undefined, entities |-> Undefined, complexity |-> Undefined]}
  \cup [kind : {"object"}, intent : IntentNames \cup {Undefined},
        entities : Entities, complexity : {"simple", "complex"}]

\* analyzeIntent's catch: the fallback intent
FallbackIntent ==
  [kind |-> "object", intent |-> "response_generation", entities |-> "empty",
   complexity |-> "simple"]

\* analyzeIntent(message, context), given what the classifier call came to
AnalyzeIntent(outcome) ==
  IF outcome.kind = "error" THEN FallbackIntent ELSE outcome

\* primaryIntent.replace('_operation', '').replace('_search', '').replace('_generation', '')
MappedCategory(primaryIntent) ==
  Replace(Replace(Replace(Chars(primaryIntent), Chars("_operation"), Chars("")),
                  Chars("_search"), Chars("")),
          Chars("_generation"), Chars(""))

\* Array.from(this.tools.values()).filter(tool => tool.category === ...)
RelevantTools(primaryIntent) ==
  SelectSeq(tools, LAMBDA t : Chars(t.category) = MappedCategory(primaryIntent))

Raised(error) ==
  [raised |-> TRUE, error |-> error, type |-> Undefined, confidence |-> 0, action |-> None]

Returned(type, confidence, action) ==
  [raised |-> FALSE, error |-> Undefined, type |-> type, confidence |-> confidence,
   action |-> action]

\* determineBestAction(intent, context): the action it returns, or the TypeError
\* it raises: on destructuring null, on primaryIntent.replace when the filter
\* callback runs (a tool is registered) and the intent field is missing, and on
\* context.messages.length when the context has no member 'messages'; and on
\* this.state.config.safetyLevel or .learningEnabled when the state has no config
\* and the test reads the field (&& evaluates its right side only when the left
\* side is true).
DetermineBestAction(intent, ctx) ==
  IF intent.kind = "null" THEN Raised("TypeError")
  ELSE IF tools # << >> /\ intent.intent = Undefined THEN Raised("TypeError")
  ELSE
    LET relevantTools == IF tools = << >> THEN << >> ELSE RelevantTools(intent.intent)
    IN IF Len(relevantTools) > 0 /\ config = None THEN Raised("TypeError")
       ELSE IF Len(relevantTools) > 0 /\ config.safetyLevel # "high"
       THEN Returned("tool_execution", ToolConfidence,
                     [toolId |-> relevantTools[1].id, parameters |-> intent.entities])
       ELSE IF intent.complexity = "complex" /\ config = None THEN Raised("TypeError")
       ELSE IF intent.complexity = "complex" /\ config.learningEnabled
       THEN Returned("planning", PlanningConfidence,
                     [intent |-> intent, entities |-> intent.entities])
       ELSE IF "messages" \notin DOMAIN ctx THEN Raised("TypeError")
       ELSE Returned("response_generation", ReplyConfidence,
                     [message |-> IF ctx.messages = << >> THEN ""
                                  ELSE ctx.messages[Len(ctx.messages)].content])

\* makeDecision giving the confidence in percent (80 for 0.8)
MakeDecisionInPercent(c, action) ==
  [id |-> <<c, "decision">>, type |-> action.type, confidence |-> 100 * action.confidence,
   action |-> action.action, timestamp |-> NewDate]

\* makeDecision: the AgentDecision built from the action; its id stands for the
\* fresh uuid and names the call that made it
MakeDecision(c, action) ==
  [id |-> <<c, "decision">>, type |-> action.type, confidence |-> action.confidence,
   action |-> action.action, timestamp |-> NewDate]

\* ------------------------------------------------------------------ processMessage

UserMessage(c, m) ==
  [id |-> <<c, "user">>, role |-> "user", content |-> m, timestamp |-> NewDate]

AssistantMessage(c, text, d) ==
  [id |-> <<c, "assistant">>, role |-> "assistant", content |-> text,
   timestamp |-> NewDate, metadata |-> [decisionId |-> d.id]]

\* processMessage up to the first await (in analyzeIntent): the user message is
\* pushed, makeDecision reads the context, the classifier is called
Start(c, m) ==
  /\ pc[c] = "idle"
  /\ c > 1 => pc[c - 1] # "idle"
  /\ messages' = Append(messages, UserMessage(c, m))
  /\ message' = [message EXCEPT ![c] = m]
  /\ context' = [context EXCEPT ![c] = GetContext(messages')]
  /\ pc' = [pc EXCEPT ![c] = "analyzeIntent"]
  /\ UNCHANGED <<learning, monitoring, importResult, config, tools, memory, decisions, performance, decision, response,
                 result, inserted, executeCalls, ops>>

\* the classifier call settles; analyzeIntent returns; determineBestAction runs;
\* makeDecision returns the decision, or its promise (and with it processMessage's,
\* line 41 being outside the try) is rejected
Decide(c, outcome) ==
  /\ pc[c] = "analyzeIntent"
  /\ LET action == DetermineBestAction(AnalyzeIntent(outcome), context[c])
     IN IF action.raised
        THEN /\ pc' = [pc EXCEPT ![c] = "done"]
             /\ result' = [result EXCEPT ![c] = [settled |-> "rejected", value |-> action.error]]
             /\ UNCHANGED decision
        ELSE /\ pc' = [pc EXCEPT ![c] = "decided"]
             /\ decision' = [decision EXCEPT ![c] = MakeDecision(c, action)]
             /\ UNCHANGED result
  /\ context' = [context EXCEPT ![c] = None]
  /\ UNCHANGED <<learning, monitoring, importResult, config, tools, messages, memory, decisions, performance, message,
                 response, inserted, executeCalls, ops>>

ToolResultRecord(c, action, value) ==
  [id |-> <<c, "tool_result">>, type |-> "tool_result",
   content |-> [toolId |-> action.toolId, parameters |-> action.parameters,
                result |-> value],
   timestamp |-> NewDate]

ConversationRecord(c, userMessage, assistantMessage, d) ==
  [id |-> <<c, "conversation">>, type |-> "conversation",
   content |-> [userMessage |-> userMessage, assistantMessage |-> assistantMessage,
                decision |-> d],
   timestamp |-> NewDate]

\* executeTool with the result of the safety predicate ignored
ExecuteToolStartUngated(action) ==
  IF ~MapHas(tools, action.toolId)
  THEN [step |-> "return", text |-> Text("Tool not found", action.toolId)]
  ELSE LET tool == MapGet(tools, action.toolId)
           check == IF tool.safetyCheck = Undefined THEN "true"
                    ELSE SafetyCheck(tool, action.parameters)
       IN IF check = "raise" THEN [step |-> "raise", text |-> Text("TypeError", tool.id)]
          ELSE IF tool.execute = Undefined
          THEN [step |-> "return", text |-> ExecutionFailed(tool.id, "TypeError")]
          ELSE [step |-> "execute", text |-> Text("", tool.id)]

\* executeTool without the test of line 184: the lookup's undefined is used, and
\* reading tool.safetyCheck raises
ExecuteToolStartNoLookupTest(action) ==
  IF ~MapHas(tools, action.toolId)
  THEN [step |-> "raise", text |-> Text("TypeError", action.toolId)]
  ELSE LET tool == MapGet(tools, action.toolId)
           check == IF tool.safetyCheck = Undefined THEN "true"
                    ELSE SafetyCheck(tool, action.parameters)
       IN IF check = "raise" THEN [step |-> "raise", text |-> Text("TypeError", tool.id)]
          ELSE IF check = "false"
          THEN [step |-> "return", text |-> Text("Safety check failed for tool", tool.id)]
          ELSE IF tool.execute = Undefined
          THEN [step |-> "return", text |-> ExecutionFailed(tool.id, "TypeError")]
          ELSE [step |-> "execute", text |-> Text("", tool.id)]

\* executeTool(action) up to its await: "return" with the text, "raise" (the
\* safety predicate raised, outside executeTool's try) or "execute" (tool.execute
\* was called and is awaited).  A descriptor without an execute member (one
\* rebuilt by importState) makes the call raise a TypeError inside the try.
ExecuteToolStart(action) ==
  IF ~MapHas(tools, action.toolId)
  THEN [step |-> "return", text |-> Text("Tool not found", action.toolId)]
  ELSE LET tool == MapGet(tools, action.toolId)
           check == IF tool.safetyCheck = Undefined THEN "true"
                    ELSE SafetyCheck(tool, action.parameters)
       IN IF check = "raise" THEN [step |-> "raise", text |-> Text("TypeError", tool.id)]
          ELSE IF check = "false"
          THEN [step |-> "return", text |-> Text("Safety check failed for tool", tool.id)]
          ELSE IF tool.execute = Undefined
          THEN [step |-> "return", text |-> ExecutionFailed(tool.id, "TypeError")]
          ELSE [step |-> "execute", text |-> Text("", tool.id)]

\* processMessage resumes with the decision: it is pushed and dispatched, up to
\* the next await.  createPlan returns at once.
Dispatch(c) ==
  /\ pc[c] = "decided"
  /\ decisions' = Append(decisions, decision[c])
  /\ LET d == decision[c]
         started == ExecuteToolStart(d.action)
     IN IF d.type = "tool_execution" THEN
          IF started.step = "return" THEN
            /\ pc' = [pc EXCEPT ![c] = "dispatched"]
            /\ response' = [response EXCEPT ![c] = started.text]
            /\ UNCHANGED executeCalls
          ELSE IF started.step = "raise" THEN
            /\ pc' = [pc EXCEPT ![c] = "failed"]
            /\ response' = [response EXCEPT ![c] = started.text]
            /\ UNCHANGED executeCalls
          ELSE
            /\ pc' = [pc EXCEPT ![c] = "executing"]
            /\ executeCalls' = Append(executeCalls,
                   [call |-> c, toolId |-> d.action.toolId,
                    parameters |-> d.action.parameters])
            /\ UNCHANGED response
        ELSE IF d.type = "planning" THEN
          /\ pc' = [pc EXCEPT ![c] = "dispatched"]
          /\ response' = [response EXCEPT ![c] = Text("I'll create a plan", message[c])]
          /\ UNCHANGED executeCalls
        ELSE
          \* response_generation, learning, default: generateResponse awaits
          \* the text generator
          /\ pc' = [pc EXCEPT ![c] = "generating"]
          /\ UNCHANGED <<response, executeCalls>>
  /\ UNCHANGED <<learning, monitoring, importResult, config, tools, messages, memory, performance, message, context,
                 decision, result, inserted, ops>>

\* what an awaited tool.execute(parameters) can come to: a value (taken to be
\* one JSON.stringify renders) or an error
ExecuteOutcomes == {"value", "error"}

\* executeTool with the storeMemory call moved out of the try's normal path: a
\* record is stored when execute raised as well
ExecuteToolEndStoresOnError(c, action, outcome) ==
  [stored |-> <<ToolResultRecord(c, action, outcome)>>,
   text   |-> IF outcome = "error" \/ StoreMemoryRaises
              THEN ExecutionFailed(action.toolId, IF outcome = "error" THEN outcome ELSE "TypeError")
              ELSE Text("Successfully executed", action.toolId)]

\* executeTool without its storeMemory call
ExecuteToolEndNeverStores(c, action, outcome) ==
  [stored |-> << >>,
   text   |-> IF outcome = "error" THEN ExecutionFailed(action.toolId, outcome)
              ELSE Text("Successfully executed", action.toolId)]

\* executeTool from the settling of the awaited execute to its return (lines
\* 194-207): the records given to storeMemory and the text returned.  An error
\* raised by execute or by storeMemory is caught by executeTool's catch.
ExecuteToolEnd(c, action, outcome) ==
  IF outcome = "error"
  THEN [stored |-> << >>, text |-> ExecutionFailed(action.toolId, outcome)]
  ELSE [stored |-> <<ToolResultRecord(c, action, outcome)>>,
        text   |-> IF StoreMemoryRaises THEN ExecutionFailed(action.toolId, "TypeError")
                   ELSE Text("Successfully executed", action.toolId)]

\* the awaited execute settles and executeTool runs to its return
ExecuteSettles(c, outcome) ==
  /\ pc[c] = "executing"
  /\ LET end == ExecuteToolEnd(c, decision[c].action, outcome)
     IN /\ memory' = IF end.stored = << >> THEN memory
                     ELSE StoreMemory(memory, end.stored[1])
        /\ inserted' = inserted \o end.stored
        /\ response' = [response EXCEPT ![c] = end.text]
  /\ pc' = [pc EXCEPT ![c] = "dispatched"]
  /\ UNCHANGED <<learning, monitoring, importResult, config, tools, messages, decisions, performance, message, context,
                 decision, result, executeCalls, ops>>

\* processMessage resumes with the response (lines 64-86).  When
\* updatePerformance raises, the catch's own updatePerformance raises too and the
\* promise is rejected; when storeMemory raises, the catch counts the call a
\* second time and returns the error text.
Respond(c) ==
  /\ pc[c] = "dispatched"
  /\ LET userMessage == UserMessage(c, message[c])
         assistantMessage == AssistantMessage(c, response[c], decision[c])
         record == ConversationRecord(c, userMessage, assistantMessage, decision[c])
     IN IF UpdatePerformanceRaises THEN
          /\ result' = [result EXCEPT ![c] = [settled |-> "rejected", value |-> "TypeError"]]
          /\ UNCHANGED <<performance, messages, memory, inserted>>
        ELSE
          /\ messages' = Append(messages, assistantMessage)
          /\ memory' = StoreMemory(memory, record)
          /\ inserted' = Append(inserted, record)
          /\ IF StoreMemoryRaises THEN
               /\ performance' = UpdatePerformance(UpdatePerformance(performance, TRUE), FALSE)
               /\ result' = [result EXCEPT ![c] =
                     [settled |-> "resolved",
                      value |-> Text("I encountered an error", "TypeError")]]
             ELSE
               /\ performance' = UpdatePerformance(performance, TRUE)
               /\ result' = [result EXCEPT ![c] =
                     [settled |-> "resolved", value |-> response[c]]]
  /\ pc' = [pc EXCEPT ![c] = "done"]
  /\ UNCHANGED <<learning, monitoring, importResult, config, tools, decisions, message, context, decision, response,
                 executeCalls, ops>>

\* processMessage's catch (lines 87-90)
Catch(c) ==
  /\ pc[c] = "failed"
  /\ IF UpdatePerformanceRaises THEN
       /\ result' = [result EXCEPT ![c] = [settled |-> "rejected", value |-> "TypeError"]]
       /\ UNCHANGED performance
     ELSE
       /\ performance' = UpdatePerformance(performance, FALSE)
       /\ result' = [result EXCEPT ![c] =
             [settled |-> "resolved",
              value |-> Text("I encountered an error", response[c].text)]]
  /\ pc' = [pc EXCEPT ![c] = "done"]
  /\ UNCHANGED <<learning, monitoring, importResult, config, tools, messages, memory, decisions, message, context, decision,
                 response, inserted, executeCalls, ops>>

\* ------------------------------------------------------------------ public methods

\* addTool(tool); without a config the push raises, after the map was updated
AddTool(tool) ==
  /\ ops < MaxOps
  /\ ops' = ops + 1
  /\ tools' = MapSet(tools, tool)
  /\ config' = IF config = None THEN config
               ELSE [config EXCEPT !.tools = Append(@, tool)]
  /\ UNCHANGED <<learning, monitoring, importResult, messages, memory, decisions, performance, pc, message, context,
                 decision, response, result, inserted, executeCalls>>

\* removeTool(toolId); without a config the filter raises, after the map was updated
RemoveTool(toolId) ==
  /\ ops < MaxOps
  /\ ops' = ops + 1
  /\ tools' = MapDelete(tools, toolId)
  /\ config' = IF config = None THEN config
               ELSE [config EXCEPT !.tools = SelectSeq(@, LAMBDA t : t.id # toolId)]
  /\ UNCHANGED <<learning, monitoring, importResult, messages, memory, decisions, performance, pc, message, context,
                 decision, response, result, inserted, executeCalls>>

\* clearMemory emptying the whole state (messages and decisions as well)
ClearMemoryClearsLogs ==
  /\ ops < MaxOps
  /\ ops' = ops + 1
  /\ memory' = << >>
  /\ inserted' = << >>
  /\ messages' = << >>
  /\ decisions' = << >>
  /\ UNCHANGED <<learning, monitoring, importResult, config, tools, performance, pc, message,
                 context, decision, response, result, executeCalls>>

\* clearMemory()
ClearMemory ==
  /\ ops < MaxOps
  /\ ops' = ops + 1
  /\ memory' = << >>
  /\ inserted' = << >>
  /\ UNCHANGED <<learning, monitoring, importResult, config, tools, messages, decisions, performance, pc, message, context,
                 decision, response, result, executeCalls>>

\* ------------------------------------------------------------------ exportState, importState

\* JSON.parse(JSON.stringify(v)) of the values the state holds: a function member
\* is left out, a Date becomes its ISO text, a member whose value is undefined is
\* left out (and reads as undefined again), strings and numbers are kept.
JsonTool(tool) == [tool EXCEPT !.execute = Undefined, !.safetyCheck = Undefined]

JsonConfig(cfg) ==
  [cfg EXCEPT !.tools = [i \in 1..Len(cfg.tools) |-> JsonTool(cfg.tools[i])]]

JsonMessage(msg) == [msg EXCEPT !.timestamp = IsoText]

JsonDecision(d) == [d EXCEPT !.timestamp = IsoText]

JsonMemory(record) ==
  IF record.type = "conversation"
  THEN [record EXCEPT
          !.timestamp = IsoText,
          !.content = [userMessage      |-> JsonMessage(@.userMessage),
                       assistantMessage |-> JsonMessage(@.assistantMessage),
                       decision         |-> JsonDecision(@.decision)]]
  ELSE [record EXCEPT !.timestamp = IsoText]

\* exportState(): the document JSON.stringify(this.state) parses back to.  A
\* member the state lacks (None) is absent from the document.
ExportState ==
  [parses      |-> TRUE,
   config      |-> IF config = None THEN None ELSE JsonConfig(config),
   messages    |-> [i \in 1..Len(messages) |-> JsonMessage(messages[i])],
   memory      |-> [i \in 1..Len(memory) |-> JsonMemory(memory[i])],
   decisions   |-> [i \in 1..Len(decisions) |-> JsonDecision(decisions[i])],
   performance |-> performance]

\* a text JSON.parse raises on
Unparsable == [parses |-> FALSE]

\* a document with one member deleted
Without(doc, member) ==
  IF member = "config" THEN [doc EXCEPT !.config = None]
  ELSE IF member = "performance" THEN [doc EXCEPT !.performance = None]
  ELSE doc

\* the documents a caller passes to importState: a text that is not JSON, the
\* engine's own export, and that export with config or performance deleted
Documents ==
  {Unparsable} \cup {Without(ExportState, member) : member \in {"none", "config", "performance"}}

\* importState(stateJson).  JSON.parse raising leaves everything as it was.
\* Otherwise this.state is assigned and the tools map cleared before
\* importedState.config.tools is read; a document without config makes that read
\* raise, and the catch raises 'Invalid state format'.
ImportState(doc) ==
  /\ ops < MaxOps
  /\ ops' = ops + 1
  /\ IF ~doc.parses THEN
       /\ importResult' = [document |-> doc, outcome |-> "Invalid state format"]
       /\ UNCHANGED <<config, tools, messages, memory, decisions, performance>>
     ELSE
       /\ config' = doc.config
       /\ messages' = doc.messages
       /\ memory' = doc.memory
       /\ decisions' = doc.decisions
       /\ performance' = doc.performance
       /\ IF doc.config = None THEN
            /\ tools' = << >>
            /\ importResult' = [document |-> doc, outcome |-> "Invalid state format"]
          ELSE
            /\ tools' = MapFromList(doc.config.tools)
            /\ importResult' = [document |-> doc, outcome |-> "returned"]
  /\ UNCHANGED <<learning, monitoring, pc, message, context, decision, response, result, inserted, executeCalls>>

\* ------------------------------------------------------------------ LearningEngine: methods

\* the message contents a caller passes to learnFromInteraction
LearnMessages ==
  {<<"help", "me">>, <<"help", "mention">>,
   <<"help", "me", "help", "me", "help", "me">>}

\* the decisions a caller passes (type and confidence)
LearnDecisions == [type : {"tool_execution"}, confidence : {30, 70, 90}]

\* learnFromInteraction up to its first await: the patterns are extracted and
\* applied to the table, the performance entry is appended, adaptBehavior
\* filters and sorts the rules.  A condition that raises rejects adaptBehavior's
\* promise and with it the call's.
LearnStart(l, words, d, ctx) ==
  /\ learnPc[l] = "idle"
  /\ l > 1 => learnPc[l - 1] # "idle"
  /\ patterns' = UpdatePatternRecognition(patterns, ExtractPatterns(words), d)
  /\ performanceHistory' = AnalyzePerformance(performanceHistory, d)
  /\ learned' = Append(learned, [content |-> words, decision |-> d])
  /\ LET applicable == ApplicableRules(adaptationRules, ctx)
     IN IF applicable.raised
        THEN /\ learnPc' = [learnPc EXCEPT ![l] = "done"]
             /\ learnResult' = [learnResult EXCEPT ![l] =
                   [settled |-> "rejected", executed |-> << >>,
                    passed |-> ctx, context |-> ctx]]
        ELSE /\ learnPc' = [learnPc EXCEPT ![l] = "adapting"]
             /\ learnResult' = [learnResult EXCEPT ![l] =
                   [settled |-> "pending",
                    executed |-> [i \in 1..Len(applicable.rules) |->
                                    applicable.rules[i].action],
                    passed |-> ctx, context |-> ctx]]
  /\ UNCHANGED <<adaptationRules, prediction, engine, monitoring>>

\* the awaited executeAdaptationRule calls return (each only writes to the
\* console), storeLearningInsights writes to the console, the call returns
LearnFinish(l) ==
  /\ learnPc[l] = "adapting"
  /\ learnPc' = [learnPc EXCEPT ![l] = "done"]
  /\ learnResult' = [learnResult EXCEPT ![l] =
        [@ EXCEPT !.settled = "resolved",
                  !.context = ExecuteAdaptationRules(learnResult[l].executed, @)]]
  /\ UNCHANGED <<patterns, performanceHistory, adaptationRules, prediction, learned, engine,
                 monitoring>>

\* the contents a caller passes to predictIntent
PredictTexts == {<<"help", "me">>, <<"help", "mention">>, <<"mention">>}

\* the contexts of the learnFromInteraction calls made beside them: those for
\* which a rule applies
PredictContexts ==
  {ctx \in LearnContexts : ApplicableRules(InitializeAdaptationRules, ctx).rules # << >>}

\* the object predictIntent returns when no extracted pattern is in the Map
UnknownConfidence == 10
UnknownIntent == [intent |-> "unknown", confidence |-> UnknownConfidence, pattern |-> <<"none">>]

\* predictIntent's forEach: one prediction per extracted pattern the Map has,
\* in the order of extraction
Predictions(table, words) ==
  LET keys    == ExtractPatterns(words)
      matched == SelectSeq(keys, LAMBDA key : PatternHas(table, key))
  IN [i \in 1..Len(matched) |->
        [intent     |-> PatternGet(table, matched[i]).response,
         confidence |-> PatternGet(table, matched[i]).confidence,
         pattern    |-> matched[i]]]

RECURSIVE SortByConfidence(_)
\* Array.prototype.sort((a, b) => b.confidence - a.confidence), which is stable
SortByConfidence(list) ==
  IF list = << >> THEN << >>
  ELSE LET best == CHOOSE i \in 1..Len(list) :
                     \A j \in 1..Len(list) :
                       \/ list[i].confidence > list[j].confidence
                       \/ list[i].confidence = list[j].confidence /\ i <= j
       IN <<list[best]>> \o
          SortByConfidence(SubSeq(list, 1, best - 1) \o SubSeq(list, best + 1, Len(list)))

\* predictIntent without the sort: the first prediction made
PredictIntentUnsorted(table, words) ==
  LET predictions == Predictions(table, words)
  IN IF Len(predictions) > 0 THEN predictions[1] ELSE UnknownIntent

\* predictIntent(content): what it returns
PredictIntent(table, words) ==
  LET predictions == SortByConfidence(Predictions(table, words))
  IN IF Len(predictions) > 0 THEN predictions[1] ELSE UnknownIntent

\* a predictIntent call (synchronous)
PredictIntentCall(words) ==
  /\ prediction' = PredictIntent(patterns, words)
  /\ UNCHANGED <<patterns, performanceHistory, adaptationRules, learnPc, learnResult,
                 learned, engine, monitoring>>

\* reset()
Reset ==
  /\ patterns' = InitializePatterns
  /\ performanceHistory' = << >>
  /\ adaptationRules' = InitializeAdaptationRules
  /\ learned' = << >>
  /\ UNCHANGED <<learnPc, learnResult, prediction, engine, monitoring>>

\* ------------------------------------------------------------------ MonitoringService: methods

\* recordMetrics(metrics)
RecordMetrics(sample) ==
  /\ Len(metrics) < MaxSamples
  /\ LET pushed == Append(metrics,
                     [responseTime |-> sample.responseTime,
                      memoryUsage |-> sample.memoryUsage,
                      cpuUsage |-> sample.cpuUsage, errorRate |-> sample.errorRate,
                      timestamp |-> now])
     IN metrics' = IF Len(pushed) > MetricsLimit THEN Slice(pushed, -MetricsLimit)
                   ELSE pushed
  /\ UNCHANGED <<thresholds, now, health, trend, engine, learning>>

\* time passes between two calls
Tick ==
  /\ now + TickMinutes <= MaxNow
  /\ now' = now + TickMinutes
  /\ UNCHANGED <<metrics, thresholds, health, trend, engine, learning>>

\* a getHealthStatus call
GetHealthStatusCall ==
  /\ health' = GetHealthStatus(metrics, thresholds, now)
  /\ UNCHANGED <<metrics, thresholds, now, trend, engine, learning>>

\* the windows a caller asks for: the default, and one the clock's step exceeds
TrendWindows == {60, 120}

\* a getPerformanceTrend call
GetPerformanceTrendCall(minutes) ==
  /\ trend' = GetPerformanceTrend(metrics, now, minutes)
  /\ UNCHANGED <<metrics, thresholds, now, health, engine, learning>>

\* clearMetrics()
ClearMetrics ==
  /\ metrics' = << >>
  /\ UNCHANGED <<thresholds, now, health, trend, engine, learning>>

\* ------------------------------------------------------------------ specification

Next ==
  \/ \E c \in Calls, m \in Messages : Start(c, m)
  \/ \E c \in Calls, outcome \in ClassifierOutcomes : Decide(c, outcome)
  \/ \E c \in Calls : Dispatch(c)
  \/ \E c \in Calls, outcome \in ExecuteOutcomes : ExecuteSettles(c, outcome)
  \/ \E c \in Calls : Respond(c)
  \/ \E c \in Calls : Catch(c)
  \/ \E tool \in ToolUniverse : AddTool(tool)
  \/ \E toolId \in ToolIds : RemoveTool(toolId)
  \/ ClearMemory

Spec == Init /\ [][Next]_vars

\* the engine with importState among its public methods
ImportNext ==
  \/ Next
  \/ \E doc \in Documents : ImportState(doc)

ImportSpec == Init /\ [][ImportNext]_vars

\* the LearningEngine with its callers; the AgentEngine beside it is one that
\* was constructed and is left alone
LearnInit ==
  /\ Init
  /\ config = [safetyLevel |-> "medium", learningEnabled |-> TRUE,
               maxMemorySize |-> MaxMemorySize, tools |-> << >>]

LearnNext ==
  \/ \E l \in LearnCalls, words \in LearnMessages, d \in LearnDecisions,
        ctx \in LearnContexts : LearnStart(l, words, d, ctx)
  \/ \E l \in LearnCalls : LearnFinish(l)
  \/ Reset

LearnSpec == LearnInit /\ [][LearnNext]_vars

\* the LearningEngine with predictIntent among the methods called
PredictNext ==
  \/ \E l \in LearnCalls, words \in PredictTexts \cap LearnMessages,
        d \in LearnDecisions, ctx \in PredictContexts : LearnStart(l, words, d, ctx)
  \/ \E l \in LearnCalls : LearnFinish(l)
  \/ Reset
  \/ \E words \in PredictTexts : PredictIntentCall(words)

PredictSpec == LearnInit /\ [][PredictNext]_vars

\* An engine that has served requests before: MaxPastCalls at most were
\* completed as plans (each left a user message, a decision, an assistant
\* message and a conversation record), and after them MaxPastRejected at most
\* were rejected in makeDecision (each left its user message).  Past calls are
\* numbered -1, -2, ...
MaxPastCalls == 22
MaxPastRejected == 1

PastDecision(i) ==
  MakeDecision(0 - i,
    Returned("planning", PlanningConfidence,
             [intent |-> [kind |-> "object", intent |-> "file_operation",
                          entities |-> "empty", complexity |-> "complex"],
              entities |-> "empty"]))

PastAssistantMessage(i) ==
  AssistantMessage(0 - i, Text("I'll create a plan", "hello"), PastDecision(i))

PastMessages(k, r) ==
  [j \in 1..(2 * k) |-> IF j % 2 = 1 THEN UserMessage(0 - ((j + 1) \div 2), "hello")
                        ELSE PastAssistantMessage(j \div 2)]
  \o [j \in 1..r |-> UserMessage(0 - (k + j), "hello")]

PastMemory(k) ==
  [i \in 1..k |-> ConversationRecord(0 - i, UserMessage(0 - i, "hello"),
                                     PastAssistantMessage(i), PastDecision(i))]

ContextInit ==
  /\ \E k \in 0..MaxPastCalls, r \in 0..MaxPastRejected :
       /\ messages = PastMessages(k, r)
       /\ memory = PastMemory(k)
       /\ inserted = PastMemory(k)
       /\ decisions = [i \in 1..k |-> PastDecision(i)]
       /\ performance = [totalInteractions |-> k, successfulActions |-> k]
  /\ config = [safetyLevel |-> "medium", learningEnabled |-> TRUE,
               maxMemorySize |-> MaxPastCalls, tools |-> << >>]
  /\ tools = << >>
  /\ pc = [c \in Calls |-> "idle"]
  /\ message = [c \in Calls |-> Undefined]
  /\ context = [c \in Calls |-> None]
  /\ decision = [c \in Calls |-> None]
  /\ response = [c \in Calls |-> NoText]
  /\ result = [c \in Calls |-> None]
  /\ executeCalls = << >>
  /\ importResult = None
  /\ ops = 0
  /\ LearningConstructed
  /\ MonitoringConstructed

\* a getContext call, its result kept in the slot of call c
GetContextCall(c) ==
  /\ context' = [context EXCEPT ![c] = GetContext(messages)]
  /\ UNCHANGED <<learning, monitoring, importResult, config, tools, messages, memory,
                 decisions, performance, pc, message, decision, response, result, inserted,
                 executeCalls, ops>>

\* getContext called on such an engine, with clearMemory as the write that may
\* come between two calls
ContextNext ==
  \/ \E c \in Calls : GetContextCall(c)
  \/ ClearMemory

ContextSpec == ContextInit /\ [][ContextNext]_vars

\* A LearningEngine that has learned before: the i-th past call was made with an
\* empty message content (no pattern is extracted from it) and a decision whose
\* confidence runs through 0.00 .. 1.00 with i.
ConfidenceSteps == 101

PastLearnDecision(i) == [type |-> "tool_execution", confidence |-> i % ConfidenceSteps]

\* the history k past calls left (k is at most the limit: nothing was dropped)
PastPerformance(k) ==
  [i \in 1..k |-> AnalyzePerformance(<< >>, PastLearnDecision(i))[1]]

\* the numbers of past calls: none, and those that leave the history at its
\* limit or just below it
PastLearns == {0, HistoryLimit - 2, HistoryLimit - 1, HistoryLimit}

HistoryInit ==
  /\ config = [safetyLevel |-> "medium", learningEnabled |-> TRUE,
               maxMemorySize |-> MaxMemorySize, tools |-> << >>]
  /\ tools = << >>
  /\ messages = << >>
  /\ memory = << >>
  /\ decisions = << >>
  /\ performance = [totalInteractions |-> 0, successfulActions |-> 0]
  /\ pc = [c \in Calls |-> "idle"]
  /\ message = [c \in Calls |-> Undefined]
  /\ context = [c \in Calls |-> None]
  /\ decision = [c \in Calls |-> None]
  /\ response = [c \in Calls |-> NoText]
  /\ result = [c \in Calls |-> None]
  /\ inserted = << >>
  /\ executeCalls = << >>
  /\ importResult = None
  /\ ops = 0
  /\ patterns = InitializePatterns
  /\ \E k \in PastLearns : performanceHistory = PastPerformance(k)
  /\ adaptationRules = InitializeAdaptationRules
  /\ learnPc = [l \in LearnCalls |-> "idle"]
  /\ learnResult = [l \in LearnCalls |-> None]
  /\ prediction = None
  /\ learned = << >>
  /\ MonitoringConstructed

\* the decisions passed to such an engine: confidences below, at and above 0.5
HistoryDecisions == [type : {"tool_execution"}, confidence : {30, 50, 51, 90}]

\* learnFromInteraction called on such an engine
HistoryNext ==
  \/ \E l \in LearnCalls, d \in HistoryDecisions, ctx \in PredictContexts :
       LearnStart(l, <<"help", "me">>, d, ctx)
  \/ \E l \in LearnCalls : LearnFinish(l)

HistorySpec == HistoryInit /\ [][HistoryNext]_vars

\* An engine constructed with tools of every category: to the file and web
\* tools, one descriptor each of the code, system, deployment and communication
\* tools (code_generate and system_info_client have no safetyCheck).
CodeGenerate ==
  [id |-> "code_generate", category |-> "code", execute |-> "function",
   safetyCheck |-> Undefined]
SystemInfo ==
  [id |-> "system_info_client", category |-> "system", execute |-> "function",
   safetyCheck |-> Undefined]
DeployDocker ==
  [id |-> "deploy_docker", category |-> "deployment", execute |-> "function",
   safetyCheck |-> "function"]
CommEmail ==
  [id |-> "comm_email", category |-> "communication", execute |-> "function",
   safetyCheck |-> "function"]

\* config.tools: a tool of every category, or the system tool alone
CategoryToolLists ==
  {<<FileRead, WebSearch, CodeGenerate, SystemInfo, DeployDocker, CommEmail>>,
   <<SystemInfo>>}

CategoryInit ==
  /\ \E sl \in SafetyLevels, le \in BOOLEAN, tl \in CategoryToolLists :
       /\ config = [safetyLevel |-> sl, learningEnabled |-> le,
                    maxMemorySize |-> MaxMemorySize, tools |-> tl]
       /\ tools = MapFromList(tl)
  /\ messages = << >>
  /\ memory = << >>
  /\ decisions = << >>
  /\ performance = [totalInteractions |-> 0, successfulActions |-> 0]
  /\ pc = [c \in Calls |-> "idle"]
  /\ message = [c \in Calls |-> Undefined]
  /\ context = [c \in Calls |-> None]
  /\ decision = [c \in Calls |-> None]
  /\ response = [c \in Calls |-> NoText]
  /\ result = [c \in Calls |-> None]
  /\ inserted = << >>
  /\ executeCalls = << >>
  /\ importResult = None
  /\ ops = 0
  /\ LearningConstructed
  /\ MonitoringConstructed

\* the intents the prompt of analyzeIntent names
PromptIntents ==
  {"file_operation", "web_search", "code_generation", "system_command",
   "deployment", "communication"}

\* the classifier answers with one of them, with or without entities
CategoryOutcomes ==
  [kind : {"object"}, intent : PromptIntents, entities : {Undefined, "valid"},
   complexity : {"simple", "complex"}]

\* processMessage called on such an engine
CategoryNext ==
  \/ \E c \in Calls, m \in Messages : Start(c, m)
  \/ \E c \in Calls, outcome \in CategoryOutcomes : Decide(c, outcome)
  \/ \E c \in Calls : Dispatch(c)
  \/ \E c \in Calls, outcome \in ExecuteOutcomes : ExecuteSettles(c, outcome)
  \/ \E c \in Calls : Respond(c)
  \/ \E c \in Calls : Catch(c)

CategorySpec == CategoryInit /\ [][CategoryNext]_vars

\* the MonitoringService with its callers, beside engines left alone
MonitorNext ==
  \/ \E sample \in MetricSamples : RecordMetrics(sample)
  \/ Tick
  \/ GetHealthStatusCall
  \/ \E minutes \in TrendWindows : GetPerformanceTrendCall(minutes)
  \/ ClearMetrics

MonitorSpec == LearnInit /\ [][MonitorNext]_vars

\* The event loop runs every continuation that is ready, and the classifier
\* request is taken to settle.  Nothing makes a tool's execute settle: the
\* engine sets no timeout on it.
FairSpec ==
  /\ Spec
  /\ \A c \in Calls :
       /\ WF_vars(\E outcome \in ClassifierOutcomes : Decide(c, outcome))
       /\ WF_vars(Dispatch(c))
       /\ WF_vars(Respond(c))
       /\ WF_vars(Catch(c))

\* generateResponse settles (lines 210-237): the generator's text, or the apology
\* that echoes the message.  Not a disjunct of Next: no call reaches "generating",
\* since no decision of a type other than tool_execution and planning is ever
\* built (DetermineBestAction raises on its last branch).
GenerateSettles(c, outcome) ==
  /\ pc[c] = "generating"
  /\ response' = [response EXCEPT ![c] =
        IF outcome = "error" THEN Text("I understand your message", message[c])
        ELSE Text("generated", message[c])]
  /\ pc' = [pc EXCEPT ![c] = "dispatched"]
  /\ UNCHANGED <<learning, monitoring, importResult, config, tools, messages, memory, decisions, performance, message,
                 context, decision, result, inserted, executeCalls, ops>>

\* ------------------------------------------------------------------ claims

InProgress(c) == pc[c] \notin {"idle", "done"}

\* the last n entries of a sequence
LastN(seq, n) == SubSeq(seq, Len(seq) - n + 1, Len(seq))

\* the user messages of the message log, in order
UserMessages == SelectSeq(messages, LAMBDA msg : msg.role = "user")

\* C1: after every storeMemory insertion the memory log holds at most
\* maxMemorySize records (memory changes only by storeMemory and clearMemory).
C1_MemoryWithinCapacity == Len(memory) <= config.maxMemorySize

\* C2: the memory log equals the last min(C, k) of the k records inserted since
\* the last clearMemory, in insertion order.
C2_MemoryIsLastInserted ==
  memory = LastN(inserted, Min(config.maxMemorySize, Len(inserted)))

\* C3: whenever no processMessage call is in progress, every user message has
\* exactly one decision in the decision log and exactly one assistant message.
C3_OneDecisionOneReplyPerUserMessage ==
  (\A c \in Calls : ~InProgress(c)) =>
    \A i \in 1..Len(messages) :
      messages[i].role = "user" =>
        LET call == messages[i].id[1]
        IN /\ Cardinality({k \in 1..Len(decisions) : decisions[k].id[1] = call}) = 1
           /\ Cardinality({j \in 1..Len(messages) :
                             /\ messages[j].role = "assistant"
                             /\ messages[j].id[1] = call}) = 1

\* C4: a processMessage call that has completed has returned a text; its
\* promise is never rejected.
C4_ProcessMessageNeverRaises ==
  \A c \in Calls : pc[c] = "done" => result[c].settled = "resolved"

ClassifierError ==
  [kind |-> "error", intent |-> Undefined, entities |-> Undefined, complexity |-> Undefined]

\* C5: when the classifier fails, makeDecision returns a decision of type
\* response_generation with confidence 0.6 and does not raise.
C5_ClassifierFailureGivesReply ==
  [][\A c \in Calls :
       Decide(c, ClassifierError) =>
         /\ pc'[c] = "decided"
         /\ decision'[c].type = "response_generation"
         /\ decision'[c].confidence = 60]_vars

\* the decision table of C6, for an intent with a string intent field
C6_Table(intent, d) ==
  LET matching == SelectSeq(tools,
                    LAMBDA t : Chars(t.category) = MappedCategory(intent.intent))
  IN IF matching # << >> /\ config.safetyLevel # "high"
     THEN d.type = "tool_execution" /\ d.confidence = 80
          /\ d.action.toolId = matching[1].id
     ELSE IF intent.complexity = "complex" /\ config.learningEnabled
     THEN d.type = "planning" /\ d.confidence = 70
     ELSE d.type = "response_generation" /\ d.confidence = 60

\* C6: determineBestAction returns what the three-branch table says (tool_execution
\* 0.8 on the first matching tool unless safetyLevel is high, else planning 0.7
\* for a complex intent with learning enabled, else response_generation 0.6),
\* and with safetyLevel high no tool's execute function is called.
C6_DecisionTable ==
  [][/\ \A c \in Calls : \A o \in ClassifierOutcomes :
          (AnalyzeIntent(o).intent # Undefined /\ Decide(c, o)) =>
            (pc'[c] = "decided" /\ C6_Table(AnalyzeIntent(o), decision'[c]))
     /\ (config.safetyLevel = "high" => executeCalls' = executeCalls)]_vars

\* the selected tool of call c is registered, has a safety predicate, and the
\* predicate returns false for the decision's parameters
SafetyRejects(c) ==
  /\ pc[c] = "decided"
  /\ decision[c].type = "tool_execution"
  /\ MapHas(tools, decision[c].action.toolId)
  /\ MapGet(tools, decision[c].action.toolId).safetyCheck # Undefined
  /\ SafetyCheck(MapGet(tools, decision[c].action.toolId),
                 decision[c].action.parameters) = "false"

SafetyFailed(c) == response[c].text = "Safety check failed for tool"

\* C7: when the selected tool's safety predicate returns false, dispatch returns
\* the safety-check-failed text without calling execute, and no tool_result
\* record is ever stored for that request.
C7_SafetyGate ==
  /\ [][\A c \in Calls :
          (SafetyRejects(c) /\ Dispatch(c)) =>
            /\ SafetyFailed(c)'
            /\ pc'[c] = "dispatched"
            /\ UNCHANGED <<executeCalls, memory, inserted>>]_vars
  /\ [](\A c \in Calls :
          SafetyFailed(c) =>
            /\ \A k \in 1..Len(executeCalls) : executeCalls[k].call # c
            /\ \A k \in 1..Len(inserted) : inserted[k].id # <<c, "tool_result">>
            /\ \A k \in 1..Len(memory) : memory[k].id # <<c, "tool_result">>)

C7_Witness ==
  \E c \in Calls : pc[c] = "done" /\ SafetyFailed(c) /\ result[c].settled = "resolved"

\* C8: every processMessage call that was started eventually returns.
C8_EveryCallReturns ==
  \A c \in Calls : (pc[c] # "idle") ~> (pc[c] = "done")

HasWritten(c) ==
  \/ \E i \in 1..Len(messages) : messages[i].id[1] = c
  \/ \E i \in 1..Len(decisions) : decisions[i].id[1] = c
  \/ \E i \in 1..Len(memory) : memory[i].id[1] = c

\* C9: while an earlier processMessage call is in progress, a later call has
\* made none of its writes to messages, decisions or memory.
C9_NoInterleavedWrites ==
  \A c \in Calls : \A e \in Calls :
    (c < e /\ InProgress(c)) => ~HasWritten(e)

\* C10: the k-th entry of the decision log is the decision made for the k-th
\* user message of the message log.
C10_DecisionLogFollowsMessageLog ==
  \A k \in 1..Len(decisions) :
    /\ k <= Len(UserMessages)
    /\ decisions[k].id[1] = UserMessages[k].id[1]

\* the state importState replaces, and the tools map it rebuilds
EngineState == <<config, messages, memory, decisions, performance>>

Rejected == "Invalid state format"

\* C11: when importState rejects a document, config, messages, memory,
\* decisions, performance and the tools map are what they were before the call.
C11_RejectedImportChangesNothing ==
  [][\A doc \in Documents :
       (ImportState(doc) /\ importResult'.outcome = Rejected) =>
         UNCHANGED <<EngineState, tools>>]_vars

\* a document that parses and has config with its tool list, messages, memory,
\* decisions and performance
StructurallyValid(doc) ==
  /\ doc.parses
  /\ doc.config # None
  /\ doc.performance # None

\* C12: importState rejects every document that is not structurally valid.
C12_InvalidDocumentsRejected ==
  [][\A doc \in Documents :
       (ImportState(doc) /\ ~StructurallyValid(doc)) =>
         importResult'.outcome = Rejected]_vars

\* the keys of a tools map, in iteration order
Keys(map) == [i \in 1..Len(map) |-> map[i].id]

\* C13: importState(exportState()) leaves messages, memory, decisions and
\* performance equal, and the rebuilt tools map has the same ids in the same
\* iteration order.
C13_RoundTrip ==
  [][ImportState(ExportState) =>
       /\ importResult'.outcome = "returned"
       /\ UNCHANGED <<messages, memory, decisions, performance>>
       /\ Keys(tools') = Keys(tools)]_vars

\* the tool named by the decision of call c is not in the tools map when the
\* decision is about to be dispatched
ToolMissing(c) ==
  /\ pc[c] = "decided"
  /\ decision[c].type = "tool_execution"
  /\ ~MapHas(tools, decision[c].action.toolId)

NotFound(c) == response[c].text = "Tool not found"

\* C14: when the decision's tool is not in the registry at dispatch time,
\* dispatch returns the not-found text naming the tool, without raising; no
\* execute function is called and no tool_result record is stored for the call.
C14_MissingToolReported ==
  /\ [][\A c \in Calls :
          (ToolMissing(c) /\ Dispatch(c)) =>
            /\ NotFound(c)'
            /\ response'[c].detail = decision[c].action.toolId
            /\ pc'[c] = "dispatched"
            /\ UNCHANGED <<executeCalls, memory, inserted>>]_vars
  /\ [](\A c \in Calls :
          NotFound(c) =>
            /\ \A k \in 1..Len(executeCalls) : executeCalls[k].call # c
            /\ \A k \in 1..Len(inserted) : inserted[k].id # <<c, "tool_result">>
            /\ \A k \in 1..Len(memory) : memory[k].id # <<c, "tool_result">>
            /\ pc[c] = "done" => result[c].settled = "resolved")

C14_Witness ==
  \E c \in Calls :
    /\ pc[c] = "done"
    /\ NotFound(c)
    /\ result[c] = [settled |-> "resolved", value |-> response[c]]

ExecuteFailed(c) == response[c].text = "Error executing"

\* the memory records of type tool_result that call c has in a log
ToolResultsOf(c, log) == {k \in 1..Len(log) : log[k].id = <<c, "tool_result">>}

\* C15: when the tool's execute raises, dispatch returns the execution-failed
\* text with the error's message, the error does not leave dispatch, no
\* tool_result record is stored, and the call completes with an assistant
\* message carrying that text.
C15_ExecuteErrorReported ==
  /\ [][\A c \in Calls :
          ExecuteSettles(c, "error") =>
            /\ response'[c] = ExecutionFailed(decision[c].action.toolId, "error")
            /\ pc'[c] = "dispatched"
            /\ UNCHANGED <<memory, inserted, result>>]_vars
  /\ [](\A c \in Calls :
          ExecuteFailed(c) =>
            /\ ToolResultsOf(c, inserted) = {}
            /\ ToolResultsOf(c, memory) = {}
            /\ pc[c] = "done" =>
                 /\ result[c] = [settled |-> "resolved", value |-> response[c]]
                 /\ \E i \in 1..Len(messages) :
                      /\ messages[i].id = <<c, "assistant">>
                      /\ messages[i].content = response[c])

\* a call whose execute raised has completed, and a request made after its
\* reply has completed with a successful execution
C15_Witness ==
  \E c \in Calls, e \in Calls :
    /\ pc[c] = "done" /\ ExecuteFailed(c)
    /\ pc[e] = "done" /\ response[e].text = "Successfully executed"
    /\ \E i \in 1..Len(messages), j \in 1..Len(messages) :
         i < j /\ messages[i].id = <<c, "assistant">> /\ messages[j].id = <<e, "user">>

\* C16: a tool_result record is stored for a call if and only if its tool's
\* execute returned without error, and then exactly one, holding the call's
\* tool id, parameters and result.
C16_ToolResultIffExecuteReturned ==
  /\ [][\A c \in Calls :
          LET record == ToolResultRecord(c, decision[c].action, "value")
          IN /\ ExecuteSettles(c, "value") =>
                  /\ inserted' = Append(inserted, record)
                  /\ memory' = StoreMemory(memory, record)
                  /\ record.content = [toolId     |-> decision[c].action.toolId,
                                       parameters |-> decision[c].action.parameters,
                                       result     |-> "value"]
             /\ (\/ Cardinality(ToolResultsOf(c, inserted')) > Cardinality(ToolResultsOf(c, inserted))
                 \/ Cardinality(ToolResultsOf(c, memory')) > Cardinality(ToolResultsOf(c, memory)))
                  => ExecuteSettles(c, "value")]_vars
  /\ [](\A c \in Calls :
          /\ Cardinality({k \in 1..Len(executeCalls) : executeCalls[k].call = c}) <= 1
          /\ Cardinality(ToolResultsOf(c, inserted)) <= 1)

C16_Witness ==
  \E c \in Calls :
    /\ pc[c] = "done"
    /\ response[c].text = "Successfully executed"
    /\ \E k \in 1..Len(memory) :
         memory[k] = ToolResultRecord(c, decision[c].action, "value")

\* C17: every processMessage call that reaches dispatch, whichever branch the
\* decision takes and whether dispatch succeeds or fails, stores exactly one
\* conversation record pairing its user message, its assistant message and its
\* decision: the step that completes the call stores it.
C17_OneConversationRecordPerCall ==
  [][\A c \in Calls :
       (pc[c] \in {"dispatched", "failed"} /\ pc'[c] = "done") =>
         /\ Len(inserted') = Len(inserted) + 1
         /\ LET record == inserted'[Len(inserted')]
            IN /\ record.id = <<c, "conversation">>
               /\ record.content.userMessage.id = <<c, "user">>
               /\ record.content.assistantMessage.id = <<c, "assistant">>
               /\ record.content.decision = decision[c]]_vars

\* C18: the configuration's tool list holds exactly one descriptor per id, and
\* its descriptors are those of the tools map.
C18_ConfigToolsMatchRegistry ==
  /\ \A i \in 1..Len(config.tools) : \A j \in 1..Len(config.tools) :
       config.tools[i].id = config.tools[j].id => i = j
  /\ {config.tools[i] : i \in 1..Len(config.tools)} = {tools[i] : i \in 1..Len(tools)}

\* C19: after any sequence of learnFromInteraction and reset calls every entry
\* of the pattern table has a confidence within [0.1, 1.0].
C19_ConfidenceWithinRange ==
  \A i \in 1..Len(patterns) : patterns[i].confidence >= 10 /\ patterns[i].confidence <= 100

\* an entry is at the floor after more losses than lead from 0.5 to 0.1
C19_Witness ==
  \E i \in 1..Len(patterns) :
    patterns[i].confidence = 10 /\ patterns[i].occurrences >= 10

HelpMe == <<"help", "me">>

\* how often extractPatterns yields a key for a content
Yields(words, key) ==
  Cardinality({i \in 1..Len(ExtractPatterns(words)) : ExtractPatterns(words)[i] = key})

\* the entry of 'help me' has the given confidence and occurrence count
HelpMeIs(table, confidence, occurrences) ==
  /\ PatternHas(table, HelpMe)
  /\ PatternGet(table, HelpMe).confidence = confidence
  /\ PatternGet(table, HelpMe).occurrences = occurrences

\* some learnFromInteraction call with this content and this decision starts
Learns(words, d) ==
  \E l \in LearnCalls, ctx \in LearnContexts : LearnStart(l, words, d, ctx)

\* C20: with no entry for 'help me', a learnFromInteraction call whose message
\* yields the key and whose decision has confidence 0.9 leaves the entry with
\* confidence 0.6 and occurrence count 1; a second such call with decision
\* confidence 0.3 leaves it with confidence 0.55 and occurrence count 2.
C20_HelpMeScenario ==
  [][\A d \in LearnDecisions, words \in LearnMessages :
       /\ (/\ d.confidence = 90
           /\ ~PatternHas(patterns, HelpMe)
           /\ Yields(words, HelpMe) > 0
           /\ Learns(words, d)) => HelpMeIs(patterns', 60, 1)
       /\ (/\ d.confidence = 30
           /\ HelpMeIs(patterns, 60, 1)
           /\ Yields(words, HelpMe) > 0
           /\ Learns(words, d)) => HelpMeIs(patterns', 55, 2)]_vars

\* C20, amended: with no entry for 'help me', a learnFromInteraction call whose
\* message yields the key once and whose decision has confidence 0.9 creates
\* the entry with confidence 0.5 and occurrence count 1; a second such call
\* with decision confidence 0.3 leaves it with confidence 0.45 and occurrence
\* count 2.
C20_HelpMeScenarioAmended ==
  [][\A d \in LearnDecisions, words \in LearnMessages :
       /\ (/\ d.confidence = 90
           /\ ~PatternHas(patterns, HelpMe)
           /\ Yields(words, HelpMe) = 1
           /\ Learns(words, d)) => HelpMeIs(patterns', 50, 1)
       /\ (/\ d.confidence = 30
           /\ HelpMeIs(patterns, 50, 1)
           /\ Yields(words, HelpMe) = 1
           /\ Learns(words, d)) => HelpMeIs(patterns', 45, 2)]_vars

\* two calls were made, with decision confidences 0.9 and 0.3, each yielding
\* 'help me' once
C20_Witness ==
  /\ Len(performanceHistory) = 2
  /\ performanceHistory[1].confidence = 90
  /\ performanceHistory[2].confidence = 30
  /\ HelpMeIs(patterns, 45, 2)

\* C21: a learnFromInteraction call completes without raising for every
\* context, one lacking the performance or memory member included: a rule
\* whose condition raises does not abort the call.
C21_RuleFailureDoesNotAbort ==
  \A l \in LearnCalls :
    learnPc[l] = "done" => learnResult[l].settled = "resolved"

\* the table entries whose key is a pattern extracted from the content
Matching(table, words) ==
  LET keys == ExtractPatterns(words)
  IN {i \in 1..Len(table) : \E k \in 1..Len(keys) : keys[k] = table[i].key}

\* C22: predictIntent returns the entry of greatest confidence among the table
\* entries whose key is an extracted pattern, returns intent 'unknown' with
\* confidence 0.1 exactly when no key matches, and leaves the table as it was.
C22_PredictIntentReturnsBest ==
  [][\A words \in PredictTexts :
       PredictIntentCall(words) =>
         /\ patterns' = patterns
         /\ (prediction' = UnknownIntent) <=> (Matching(patterns, words) = {})
         /\ Matching(patterns, words) # {} =>
              \E i \in Matching(patterns, words) :
                /\ prediction'.pattern = patterns[i].key
                /\ prediction'.intent = patterns[i].response
                /\ prediction'.confidence = patterns[i].confidence
                /\ \A j \in Matching(patterns, words) :
                     patterns[j].confidence <= patterns[i].confidence]_vars

\* a prediction that was not the first pattern extracted: after one call with
\* 'help mention' and one with 'help me', 'help mention' is in the table with
\* less confidence than 'help me'
C22_Witness ==
  /\ prediction # None
  /\ prediction.pattern = HelpMe
  /\ prediction.confidence = 70
  /\ Len(performanceHistory) = 2
  /\ PatternHas(patterns, <<"help", "mention">>)
  /\ PatternGet(patterns, <<"help", "mention">>).confidence < prediction.confidence
  /\ PatternGet(patterns, HelpMe).confidence = prediction.confidence

\* the number of thresholds a sample is not strictly below
Violations(sample) ==
  Cardinality({name \in DOMAIN InitialThresholds : ~(sample[name] < InitialThresholds[name])})

\* C23: getHealthStatus depends only on the most recent sample: a check fails
\* when its metric is not strictly below its threshold (5000 ms, 0.8, 0.7, 0.1),
\* no failed check gives 'healthy', one or two 'degraded', three or four
\* 'unhealthy'; without a sample it gives 'healthy' and no recommendation.
C23_HealthFromLatestSample ==
  [][GetHealthStatusCall =>
       IF Len(metrics) = 0
       THEN health'.status = "healthy" /\ health'.recommendations = << >>
       ELSE LET latest == metrics[Len(metrics)]
            IN /\ health'.checks.responseTime = (latest.responseTime < 5000)
               /\ health'.checks.memory = (latest.memoryUsage < 80)
               /\ health'.checks.cpu = (latest.cpuUsage < 70)
               /\ health'.checks.errorRate = (latest.errorRate < 10)
               /\ Violations(latest) = 0 => health'.status = "healthy"
               /\ Violations(latest) \in {1, 2} => health'.status = "degraded"
               /\ Violations(latest) \in {3, 4} => health'.status = "unhealthy"]_vars

\* a status for a sample whose response time and error rate equal their
\* thresholds, recorded after another
C23_Witness ==
  /\ health # None
  /\ health.status = "unhealthy"
  /\ health.metrics.responseTime = ResponseTimeThreshold
  /\ health.metrics.errorRate = ErrorRateThreshold
  /\ Len(metrics) >= 2
  /\ health.metrics = metrics[Len(metrics)]

\* the last four samples, each with an error rate not below the threshold
FourErrorRateViolations ==
  /\ Len(metrics) >= 4
  /\ \A k \in (Len(metrics) - 3)..Len(metrics) : ~(metrics[k].errorRate < ErrorRateThreshold)

\* the last four samples, each violating the error-rate threshold and no other
FourErrorRateOnlyViolations ==
  /\ FourErrorRateViolations
  /\ \A k \in (Len(metrics) - 3)..Len(metrics) : Violations(metrics[k]) = 1

\* C24: after four consecutive samples each violating the errorRate threshold,
\* getHealthStatus reports 'unhealthy' with 4 failed checks and exactly 4
\* non-empty recommendations.
C24_FourViolationsUnhealthy ==
  [][(FourErrorRateViolations /\ GetHealthStatusCall) =>
       /\ health'.status = "unhealthy"
       /\ FailedChecks(health'.checks) = 4
       /\ Len(health'.recommendations) = 4
       /\ \A k \in 1..Len(health'.recommendations) : health'.recommendations[k] # ""]_vars

\* C24, amended: after four consecutive samples each violating the errorRate
\* threshold and no other, getHealthStatus reports 'degraded' with 1 failed
\* check (errorRate) and exactly 1 non-empty recommendation.
C24_FourViolationsDegraded ==
  [][(FourErrorRateOnlyViolations /\ GetHealthStatusCall) =>
       /\ health'.status = "degraded"
       /\ FailedChecks(health'.checks) = 1
       /\ ~health'.checks.errorRate
       /\ Len(health'.recommendations) = 1
       /\ health'.recommendations[1] # ""]_vars

\* the status was asked for after four such samples
C24_Witness ==
  /\ FourErrorRateOnlyViolations
  /\ health # None
  /\ health.status = "degraded"
  /\ health.metrics = metrics[Len(metrics)]
  /\ \E k \in 1..3 : metrics[k] # metrics[4]

\* a <= b * percent / 100, for fractions a and b
AtMost(a, b, percent) == 100 * a.sum * b.count <= percent * b.sum * a.count

\* a >= b * percent / 100
AtLeast(a, b, percent) == 100 * a.sum * b.count >= percent * b.sum * a.count

\* the two halves of the window: the first floor(n / 2) samples and the rest
FirstHalf(window) == SubSeq(window, 1, Len(window) \div 2)
SecondHalf(window) == SubSeq(window, Len(window) \div 2 + 1, Len(window))

\* the trend of a window when a change of exactly 10% counts
TrendCountingBounds(window) ==
  LET firstAvg  == CalculateAverage(FirstHalf(window))
      secondAvg == CalculateAverage(SecondHalf(window))
  IN IF Len(window) < 2 THEN "stable"
     ELSE IF /\ AtMost(secondAvg.responseTime, firstAvg.responseTime, 90)
             /\ AtMost(secondAvg.errorRate, firstAvg.errorRate, 90)
     THEN "improving"
     ELSE IF \/ AtLeast(secondAvg.responseTime, firstAvg.responseTime, 110)
             \/ AtLeast(secondAvg.errorRate, firstAvg.errorRate, 110)
     THEN "degrading"
     ELSE "stable"

\* C25: getPerformanceTrend gives 'stable' for fewer than 2 samples in the
\* window; otherwise 'improving' exactly when the second half's averages of
\* responseTime and errorRate are both at least 10% lower than the first
\* half's (exactly 10% counts), else 'degrading' when either is at least 10%
\* higher (exactly 10% counts), else 'stable'.
C25_TrendCountsBounds ==
  [][\A minutes \in TrendWindows :
       GetPerformanceTrendCall(minutes) =>
         trend' = TrendCountingBounds(GetMetricsHistory(metrics, now, minutes))]_vars

\* C26: for every window whose second half has the responseTime improved and
\* an errorRate average worse than the first half's, getPerformanceTrend
\* reports 'degrading'.
C26_ErrorRateWorseDegrading ==
  [][\A minutes \in TrendWindows :
       LET window    == GetMetricsHistory(metrics, now, minutes)
           firstAvg  == CalculateAverage(FirstHalf(window))
           secondAvg == CalculateAverage(SecondHalf(window))
       IN (/\ Len(window) >= 2
           /\ AtMost(secondAvg.responseTime, firstAvg.responseTime, 90)
           /\ Above(secondAvg.errorRate, firstAvg.errorRate, 100)
           /\ GetPerformanceTrendCall(minutes)) => trend' = "degrading"]_vars

\* call c is on the reply branch: determineBestAction selected no tool and no
\* planning for it
ReplyBranch(c) ==
  IF decision[c] = None THEN pc[c] = "done"
  ELSE decision[c].type \notin {"tool_execution", "planning"}

\* C27: a request on the reply branch completes without raising also when the
\* text generator fails: its text is the generated one or the apology echoing
\* the message, and the assistant message and the conversation record are
\* written as for a successful request.
C27_GeneratorFailureGivesApology ==
  \A c \in Calls :
    (pc[c] = "done" /\ ReplyBranch(c)) =>
      /\ result[c].settled = "resolved"
      /\ response[c] \in {Text("generated", message[c]),
                          Text("I understand your message", message[c])}
      /\ \E i \in 1..Len(messages) :
           messages[i].role = "assistant" /\ messages[i].id[1] = c
      /\ \E k \in 1..Len(inserted) : inserted[k].id = <<c, "conversation">>

RECURSIVE ApplyEach(_, _, _)
\* the keys of one call applied to the table one after the other
ApplyEach(table, keys, d) ==
  IF keys = << >> THEN table
  ELSE ApplyEach(UpdatePattern(table, Head(keys), d), Tail(keys), d)

RECURSIVE Serial(_)
\* the table a serial execution of the calls leaves: each call's keys are
\* applied to the table its predecessor left
Serial(calls) ==
  IF calls = << >> THEN InitializePatterns
  ELSE LET call == calls[Len(calls)]
       IN ApplyEach(Serial(SubSeq(calls, 1, Len(calls) - 1)),
                    ExtractPatterns(call.content), call.decision)

\* C28: whatever learnFromInteraction calls overlap, the pattern table (counts
\* and confidences) is the one a serial execution of the calls leaves, in the
\* order they were started: no update is lost.
C28_ConcurrentLearnsSerializable ==
  patterns = Serial(learned)

\* three calls are in progress at once, two of them on the same key
C28_Witness ==
  /\ \A l \in LearnCalls : learnPc[l] = "adapting"
  /\ Len(learned) = MaxLearns
  /\ PatternHas(patterns, HelpMe)
  /\ PatternGet(patterns, HelpMe).occurrences >= 4

\* C29: every decision makeDecision builds, and every decision in the decision
\* log, has a confidence within [0, 1] (0..100 hundredths).
C29_DecisionConfidenceWithinRange ==
  /\ \A c \in Calls :
       decision[c] # None => decision[c].confidence >= 0 /\ decision[c].confidence <= 100
  /\ \A k \in 1..Len(decisions) :
       decisions[k].confidence >= 0 /\ decisions[k].confidence <= 100

\* the decision log holds a tool_execution decision and a planning decision
C29_Witness ==
  /\ \E k \in 1..Len(decisions) :
       decisions[k].type = "tool_execution" /\ decisions[k].confidence = ToolConfidence
  /\ \E k \in 1..Len(decisions) :
       decisions[k].type = "planning" /\ decisions[k].confidence = PlanningConfidence

\* a is a prefix of b
IsPrefix(a, b) == Len(a) <= Len(b) /\ SubSeq(b, 1, Len(a)) = a

\* C30: across processMessage, addTool, removeTool and clearMemory the message
\* log and the decision log are append-only (each step leaves the earlier log
\* as a prefix of the later one), and a step that empties the memory log (only
\* clearMemory does) changes no other part of the state.
C30_LogsAppendOnly ==
  [][/\ IsPrefix(messages, messages')
     /\ IsPrefix(decisions, decisions')
     /\ (memory # << >> /\ memory' = << >>) =>
          UNCHANGED <<messages, decisions, config, tools, performance>>]_vars

\* clearMemory was called after a request completed: the memory log and the
\* history of insertions are empty, the two logs are not
C30_Witness ==
  /\ \E c \in Calls : pc[c] = "done" /\ result[c].settled = "resolved"
  /\ memory = << >>
  /\ inserted = << >>
  /\ config.maxMemorySize > 0
  /\ Len(messages) >= 2
  /\ Len(decisions) >= 1

\* C31: learnFromInteraction and predictIntent remove no entry of the pattern
\* table: in every step but a reset each key of the table is still there, with
\* an occurrence count that is not smaller.
C31_EntriesStayUntilReset ==
  [][Reset \/ \A i \in 1..Len(patterns) :
                /\ PatternHas(patterns', patterns[i].key)
                /\ PatternGet(patterns', patterns[i].key).occurrences
                     >= patterns[i].occurrences]_vars

\* 'help me' was learned, met weak decisions afterwards, and is still in the
\* table when a prediction has been made
C31_Witness ==
  /\ PatternHas(patterns, HelpMe)
  /\ PatternGet(patterns, HelpMe).occurrences >= 3
  /\ PatternGet(patterns, HelpMe).confidence < NewConfidence
  /\ prediction # None
  /\ prediction.pattern = HelpMe

\* the intent leads determineBestAction to its last branch: no registered tool
\* of the mapped category may be used, and no planning is due
ReplyIntent(intent) ==
  /\ intent.kind = "object"
  /\ intent.intent # Undefined
  /\ RelevantTools(intent.intent) = << >> \/ config.safetyLevel = "high"
  /\ ~(intent.complexity = "complex" /\ config.learningEnabled)

\* C32: on the reply branch the decision's action carries the content of the
\* latest user message, read from the context getContext built.
C32_ReplyCarriesLatestMessage ==
  [][\A c \in Calls : \A o \in ClassifierOutcomes :
       (pc[c] = "analyzeIntent" /\ ReplyIntent(AnalyzeIntent(o)) /\ Decide(c, o)) =>
         /\ pc'[c] = "decided"
         /\ decision'[c].type = "response_generation"
         /\ decision'[c].action.message =
              context[c].recentMessages[Len(context[c].recentMessages)].content]_vars

\* learnFromInteraction starts with this content and decision
LearnsWith(words, d) ==
  \E l \in LearnCalls :
    /\ learnPc[l] = "idle"
    /\ \E ctx \in LearnContexts : LearnStart(l, words, d, ctx)

\* C33: in one learnFromInteraction call a key that extractPatterns yields more
\* than once is applied to the table once: an unseen key is created with
\* occurrence count 1 and confidence 0.5, a seen key has its occurrence count
\* raised by exactly 1 and its confidence adjusted once.
C33_RepeatedKeyAppliedOnce ==
  [][\A words \in LearnMessages : \A d \in LearnDecisions :
       \A k \in 1..Len(ExtractPatterns(words)) :
         LET key == ExtractPatterns(words)[k]
         IN (Yields(words, key) > 1 /\ LearnsWith(words, d)) =>
              IF ~PatternHas(patterns, key)
              THEN /\ PatternGet(patterns', key).occurrences = 1
                   /\ PatternGet(patterns', key).confidence = NewConfidence
              ELSE PatternGet(patterns', key) =
                     PatternGet(UpdatePattern(patterns, key, d), key)]_vars

\* the entry the rule of C34 gives for one extracted key: created at 0.5 with
\* count 1, or counted once more with the confidence raised by 0.1 up to 1.0
\* for a decision above 0.7, lowered by 0.05 down to 0.1 otherwise
RuleEntry(table, key, d) ==
  IF ~PatternHas(table, key)
  THEN [confidence |-> 50, occurrences |-> 1]
  ELSE LET entry == PatternGet(table, key)
       IN [confidence  |-> IF d.confidence > 70
                           THEN (IF entry.confidence + 10 > 100 THEN 100
                                 ELSE entry.confidence + 10)
                           ELSE (IF entry.confidence - 5 < 10 THEN 10
                                 ELSE entry.confidence - 5),
           occurrences |-> entry.occurrences + 1]

\* the table with the rule's entry for the key, every other entry as it was
RuleTable(table, key, d) ==
  IF ~PatternHas(table, key)
  THEN Append(table, [key |-> key, response |-> d.type,
                      confidence |-> RuleEntry(table, key, d).confidence,
                      occurrences |-> RuleEntry(table, key, d).occurrences])
  ELSE [i \in 1..Len(table) |->
          IF table[i].key = key
          THEN [table[i] EXCEPT !.confidence = RuleEntry(table, key, d).confidence,
                                !.occurrences = RuleEntry(table, key, d).occurrences]
          ELSE table[i]]

RECURSIVE RuleForEach(_, _, _)
\* the rule applied for each extracted key in turn
RuleForEach(table, keys, d) ==
  IF keys = << >> THEN table
  ELSE RuleForEach(RuleTable(table, Head(keys), d), Tail(keys), d)

\* (a step in which a learnFromInteraction call starts is one that adds the
\* call to the history 'learned')
\* C34: for each extracted key updatePatternRecognition creates the entry with
\* confidence 0.5 and count 1 when the key is unseen, and otherwise increments
\* the count and sets the confidence to min(1.0, c + 0.1) for a decision
\* confidence strictly above 0.7, to max(0.1, c - 0.05) otherwise (0.7 decays).
C34_PerKeyUpdateRule ==
  [][Len(learned') = Len(learned) + 1 =>
       LET call == learned'[Len(learned')]
       IN patterns' = RuleForEach(patterns, ExtractPatterns(call.content), call.decision)]_vars

\* a decision of exactly 0.7 met the entry of 'help me' and lowered it
C34_Witness ==
  /\ Len(learned) = 2
  /\ learned[1].content = <<"help", "mention">>
  /\ learned[2].content = <<"help", "mention">>
  /\ learned[2].decision.confidence = ConfidenceThreshold
  /\ HelpMeIs(patterns, 45, 2)

\* C35: getContext returns the last min(10, size) messages and the last
\* min(20, size) memory records in insertion order and leaves messages, memory,
\* decisions and performance unchanged; two calls with no write between them
\* return identical results.
C35_GetContextReadsOnly ==
  /\ [][\A c \in Calls :
          GetContextCall(c) =>
            /\ context'[c].recentMessages = LastN(messages, Min(10, Len(messages)))
            /\ context'[c].memory = LastN(memory, Min(20, Len(memory)))
            /\ UNCHANGED <<messages, memory, decisions, performance>>]_vars
  /\ [](\A c \in Calls : \A e \in Calls :
          (ops = 0 /\ context[c] # None /\ context[e] # None) => context[c] = context[e])

\* two calls returned the same last 10 of more messages and last 20 of more
\* memory records
C35_Witness ==
  /\ Len(messages) > RecentMessages
  /\ Len(memory) > RecentMemory
  /\ ops = 0
  /\ \A c \in Calls :
       /\ context[c] # None
       /\ Len(context[c].recentMessages) = RecentMessages
       /\ Len(context[c].memory) = RecentMemory
       /\ context[c].memory[RecentMemory] = memory[Len(memory)]

\* C36: learnFromInteraction modifies neither the context passed to it (the
\* agent's config, memory, performance) nor the agent's state, whichever rules
\* fire: a step of a call changes nothing of the AgentEngine, and a call that
\* has completed has left its context as it was passed.
C36_LearningLeavesAgentState ==
  /\ [][(learnPc' # learnPc \/ learned' # learned) =>
          UNCHANGED <<config, tools, messages, memory, decisions, performance>>]_vars
  /\ [](\A l \in LearnCalls :
          learnPc[l] # "idle" => learnResult[l].context = learnResult[l].passed)

\* a call in which all three rules fired has returned
C36_Witness ==
  \E l \in LearnCalls :
    /\ learnPc[l] = "done"
    /\ learnResult[l].settled = "resolved"
    /\ learnResult[l].executed =
         <<"reduce_complexity", "increase_safety_checks", "cleanup_memory">>

\* the entry analyzePerformance is to append for a decision
ExpectedEntry(d) ==
  [decisionType |-> d.type, confidence |-> d.confidence, responseTime |-> 0,
   success |-> (d.confidence >= SuccessThreshold + 1), timestamp |-> NewDate]

\* the entries of k past calls followed by those of the calls made since
AppendedEntries(k) ==
  [i \in 1..(k + Len(learned)) |->
     IF i <= k THEN ExpectedEntry(PastLearnDecision(i))
     ELSE ExpectedEntry(learned[i - k].decision)]

\* C37: the performance history holds at most 1000 entries, and it is the most
\* recent min(1000, k) of the k entries appended so far, in the order they were
\* appended; every learnFromInteraction call appends one entry, whose success
\* flag is true exactly when the decision's confidence is above 0.5.
C37_HistoryKeepsMostRecent ==
  /\ Len(performanceHistory) <= HistoryLimit
  /\ \E k \in PastLearns :
       performanceHistory =
         LastN(AppendedEntries(k), Min(HistoryLimit, k + Len(learned)))

\* three calls have appended to a full history, one of them with confidence 0.5
C37_Witness ==
  /\ Len(learned) = MaxLearns
  /\ Len(performanceHistory) = HistoryLimit
  /\ performanceHistory[HistoryLimit].confidence = SuccessThreshold
  /\ performanceHistory[1] = ExpectedEntry(PastLearnDecision(MaxLearns + 1))

\* the tool category of an intent's family
IntentFamily(intent) ==
  IF intent = "file_operation" THEN "file"
  ELSE IF intent = "web_search" THEN "web"
  ELSE IF intent = "code_generation" THEN "code"
  ELSE IF intent = "system_command" THEN "system"
  ELSE intent

\* a tool of the category is registered
Registered(category) == \E i \in 1..Len(tools) : tools[i].category = category

\* C38: for each of the six intents of the prompt, when a tool of the intent's
\* family is registered and the safety level is not 'high', the decision is a
\* tool execution with a registered tool of that category.
C38_IntentSelectsFamilyTool ==
  [][\A c \in Calls : \A o \in CategoryOutcomes :
       (/\ pc[c] = "analyzeIntent"
        /\ config.safetyLevel # "high"
        /\ Registered(IntentFamily(o.intent))
        /\ Decide(c, o)) =>
         /\ pc'[c] = "decided"
         /\ decision'[c].type = "tool_execution"
         /\ MapGet(tools, decision'[c].action.toolId).category =
              IntentFamily(o.intent)]_vars

\* executeTool short-circuits the invocation by the safety gate
ShortCircuited(action) ==
  LET started == ExecuteToolStart(action)
  IN /\ started.step = "return"
     /\ started.text.text = "Safety check failed for tool"

\* C39: an invocation that the safety gate short-circuits before the engine's
\* own export is imported is short-circuited after the import as well.
C39_RoundTripKeepsSafetyGate ==
  [][(ImportState(ExportState) /\ importResult'.outcome = "returned") =>
       \A toolId \in ToolIds : \A params \in Entities :
         ShortCircuited([toolId |-> toolId, parameters |-> params]) =>
           ShortCircuited([toolId |-> toolId, parameters |-> params])']_vars

\* the calls that have reached the outcome of their dispatch and returned: by
\* the normal path, or by processMessage's own handler
Completed == {c \in Calls : pc[c] = "done" /\ result[c].settled = "resolved"}

Caught == {c \in Completed : result[c].value.text = "I encountered an error"}

\* the texts executeTool returns for a tool that is missing, gated or failing
FailureTexts == {"Tool not found", "Safety check failed for tool", "Error executing"}

\* C40: successfulActions never exceeds totalInteractions; totalInteractions is
\* the number of processMessage calls that have reached their dispatch outcome;
\* successfulActions counts those that did not end in processMessage's own
\* handler, the calls whose dispatch returned a not-found, safety-check-failed
\* or execution-error text among them.
C40_CountersFollowCalls ==
  /\ performance.successfulActions <= performance.totalInteractions
  /\ performance.totalInteractions = Cardinality(Completed)
  /\ performance.successfulActions = Cardinality(Completed \ Caught)
  /\ \A c \in Completed : response[c].text \in FailureTexts => c \notin Caught

\* one call returned the safety-check-failed text and was counted as successful,
\* another ended in the handler and was not
C40_Witness ==
  /\ performance = [totalInteractions |-> MaxCalls, successfulActions |-> 1]
  /\ \E c \in Completed \ Caught : response[c].text = "Safety check failed for tool"
  /\ Caught # {}

=============================================================================
